---- MODULE Spec2Model ----
(***************************************************************************)
(* Route-planning pipeline of rotadebares: the approximation solver's      *)
(* projection of a closed tour onto an open path (optimization.py), the    *)
(* planning handler of the front-end (ui.py), the elevation and distance   *)
(* matrix fetchers with their degraded modes (data_fetch.py,               *)
(* async_fetch.py) and the geocoder with its cache (geocoding.py).         *)
(*                                                                         *)
(* Each component has its own variables, initial predicate, next-state     *)
(* relation and specification; the variables of the other components stay  *)
(* at their idle values.  Python indices are kept as values (0..n-1): a    *)
(* matrix or a row is a function on 0..n-1.  Python lists that are only    *)
(* appended to, rotated or returned are sequences, so position p of such a *)
(* list is position p+1 of the sequence.                                   *)
(***************************************************************************)
EXTENDS Integers, Sequences, FiniteSets, TLC

VARIABLES
    \* christofides_tsp (optimization.py)
    ch_n,          \* n = len(dist_matrix)
    ch_start,      \* start
    ch_end,        \* end
    ch_raw,        \* what nx.approximation.christofides returned
    ch_cycle,      \* the local list `cycle`
    ch_pc,         \* position in the function body
    \* batch_altitude / batch_altitude_async (data_fetch.py, async_fetch.py)
    al_variant,    \* "sync" or "async"
    al_n,          \* len(latlons)
    al_resp,       \* what Open-Elevation answers
    al_ret,        \* the returned list
    al_pc,
    \* osrm_table / osrm_table_async (data_fetch.py, async_fetch.py)
    os_variant,    \* "sync" or "async"
    os_n,          \* len(latlons)
    os_slope,      \* which distance table the routing service holds
    os_bulk,       \* how the bulk request ended
    os_task,       \* per source index: queued, running, or how fetch_row ended
    os_seen,       \* source indices whose result the assembling loop has taken
    os_results,    \* the local list `results`
    os_ret,        \* the returned matrix
    os_pc,
    \* run_ui.on_compute (ui.py), from the size check on
    oc_n,          \* len(coords) at the size check
    oc_slope,      \* which distance table the routing service holds
    oc_alts,       \* alts
    oc_m,          \* len(coords) after the altitudes are zipped in
    oc_dist,       \* dist
    oc_best,       \* best
    oc_route,      \* route
    oc_pc,
    \* geocode_strict_single / geocode_fallback_single (geocoding.py)
    geo_cache,     \* _cache_geo
    geo_bcache,    \* the lru_cache of get_city_bbox
    geo_last,      \* the last call: its arguments, its result, its requests
    geo_succeeded, \* history: the calls that returned a coordinate
    geo_origin,    \* history: the mode of the call that stored each key
    geo_checked,   \* history: the city of the call that stored each key
    \* geocode_rl, photon_geocode_rl, _city_geolocator (geocoding.py)
    rl_now,        \* the clock, in seconds
    rl_last,       \* per RateLimiter: when it last let a call through
    rl_sent,       \* per provider: when the last request went out
    rl_mingap,     \* per provider: the shortest time between two requests
    rl_bcached,    \* the cities in the lru_cache of get_city_bbox
    rl_caller,     \* per concurrent caller: its lookup and where it stands
    \* coletar_pois / coletar_pois_async (data_fetch.py, async_fetch.py)
    poi_variant,   \* "sync" or "async"
    poi_world,     \* what OSM holds for the city: bbox answer, area id, polygon
    poi_resp,      \* what Overpass answers to the POI query
    poi_bbox,      \* bbox
    poi_area,      \* area_id
    poi_poly,      \* poly
    poi_scope,     \* the scope of the query sent
    poi_ret,       \* the returned list
    poi_pc,
    \* get_city_bbox behind its lru_cache (geocoding.py)
    bd_lru,        \* the cached cities with their values, least recently used first
    bd_fresh,      \* how many other city names have been resolved so far
    bd_resolved,   \* history: the city names whose resolution has returned
    bd_last,        \* the last resolution: its city, its result, its requests
    \* the containment decisions on one coordinate (geocoding.py, async_fetch.py)
    ct_lat,
    ct_lon,
    ct_bbox,
    ct_poly,
    ct_ret,
    \* apply_elevation_penalty (optimization.py)
    ep_n,          \* n = len(dist_matrix)
    ep_m0,         \* history: the values of dist_matrix at the call
    ep_alts,       \* alts
    ep_weight,     \* weight
    ep_heap,       \* the row lists in memory, by identity
    ep_dist,       \* dist_matrix: the identities of its rows
    ep_penal,      \* penal: the identities of its rows
    ep_i,          \* i
    ep_j,          \* j
    ep_ret,        \* the returned list
    ep_pc,          \* position in the function body
    \* run_ui.on_compute up to the size check (ui.py)
    rq_start,      \* start_txt.value.strip()
    rq_end,        \* end_txt.value.strip()
    rq_same,       \* same_cb.value
    rq_npois,      \* how many POI checkboxes are ticked
    rq_extras,     \* how many non-blank lines custom_txt holds
    rq_k,          \* how many of them have been geocoded
    rq_coords,     \* len(coords)
    rq_net,        \* history: the lookups that went to the network
    rq_reason,     \* the message printed on rejection
    rq_pc,          \* position in the handler
    \* concurrent geocode calls on the shared _cache_geo (geocoding.py)
    cc_cache,      \* _cache_geo
    cc_first,      \* history: per key the value stored first
    cc_caller      \* per concurrent caller: its call and where it stands

ch_vars == <<ch_n, ch_start, ch_end, ch_raw, ch_cycle, ch_pc>>

al_vars == <<al_variant, al_n, al_resp, al_ret, al_pc>>

os_vars == <<os_variant, os_n, os_slope, os_bulk, os_task, os_seen, os_results,
             os_ret, os_pc>>

oc_vars == <<oc_n, oc_slope, oc_alts, oc_m, oc_dist, oc_best, oc_route, oc_pc>>

geo_vars == <<geo_cache, geo_bcache, geo_last, geo_succeeded, geo_origin,
              geo_checked>>

rl_vars == <<rl_now, rl_last, rl_sent, rl_mingap, rl_bcached, rl_caller>>

poi_vars == <<poi_variant, poi_world, poi_resp, poi_bbox, poi_area, poi_poly,
              poi_scope, poi_ret, poi_pc>>

bd_vars == <<bd_lru, bd_fresh, bd_resolved, bd_last>>

ct_vars == <<ct_lat, ct_lon, ct_bbox, ct_poly, ct_ret>>

ep_vars == <<ep_n, ep_m0, ep_alts, ep_weight, ep_heap, ep_dist, ep_penal, ep_i,
             ep_j, ep_ret, ep_pc>>

rq_vars == <<rq_start, rq_end, rq_same, rq_npois, rq_extras, rq_k, rq_coords,
             rq_net, rq_reason, rq_pc>>

cc_vars == <<cc_cache, cc_first, cc_caller>>

vars == <<ch_vars, al_vars, os_vars, oc_vars, geo_vars, rl_vars, poi_vars, bd_vars,
         ct_vars,
         ep_vars,
         rq_vars,
         cc_vars>>

\* what the actions of one component leave alone
ch_others == <<al_vars, os_vars, oc_vars, geo_vars, rl_vars, poi_vars,
              bd_vars, ct_vars, ep_vars, rq_vars, cc_vars>>

al_others == <<ch_vars, os_vars, oc_vars, geo_vars, rl_vars, poi_vars,
              bd_vars, ct_vars, ep_vars, rq_vars, cc_vars>>

os_others == <<ch_vars, al_vars, oc_vars, geo_vars, rl_vars, poi_vars,
              bd_vars, ct_vars, ep_vars, rq_vars, cc_vars>>

oc_others == <<ch_vars, al_vars, os_vars, geo_vars, rl_vars, poi_vars,
              bd_vars, ct_vars, ep_vars, rq_vars, cc_vars>>

geo_others == <<ch_vars, al_vars, os_vars, oc_vars, rl_vars, poi_vars,
              bd_vars, ct_vars, ep_vars, rq_vars, cc_vars>>

rl_others == <<ch_vars, al_vars, os_vars, oc_vars, geo_vars, poi_vars,
              bd_vars, ct_vars, ep_vars, rq_vars, cc_vars>>

poi_others == <<ch_vars, al_vars, os_vars, oc_vars, geo_vars, rl_vars,
               bd_vars, ct_vars, ep_vars, rq_vars, cc_vars>>

bd_others == <<ch_vars, al_vars, os_vars, oc_vars, geo_vars, rl_vars, poi_vars, ct_vars, ep_vars, rq_vars, cc_vars>>

ct_others == <<ch_vars, al_vars, os_vars, oc_vars, geo_vars, rl_vars, poi_vars, bd_vars, ep_vars, rq_vars, cc_vars>>

ep_others == <<ch_vars, al_vars, os_vars, oc_vars, geo_vars, rl_vars, poi_vars, bd_vars, ct_vars, rq_vars, cc_vars>>

rq_others == <<ch_vars, al_vars, os_vars, oc_vars, geo_vars, rl_vars, poi_vars, bd_vars, ct_vars, ep_vars, cc_vars>>

cc_others == <<ch_vars, al_vars, os_vars, oc_vars, geo_vars, rl_vars, poi_vars, bd_vars, ct_vars, ep_vars, rq_vars>>

----------------------------------------------------------------------------
(* Bounds *)

\* largest number of points of a christofides_tsp instance
MaxN == 4

\* largest number of points of an elevation lookup or of a planning request
MaxPts == 4

\* largest number of points of a distance matrix request
MaxRows == 3

----------------------------------------------------------------------------
(* Helpers shared by the components *)

\* Python's None and a present value, for results that may be None
NoneVal == [some |-> FALSE, val |-> <<>>]

Some(v) == [some |-> TRUE, val |-> v]

Nodes(n) == 0..(n - 1)

Range(s) == {s[p] : p \in DOMAIN s}

Min(a, b) == IF a <= b THEN a ELSE b

\* sequences over S without a repeated element, of every length
InjSeqs(S) ==
    UNION { {s \in [1..k -> S] : \A p, q \in 1..k : p # q => s[p] # s[q]}
            : k \in 0..Cardinality(S) }

\* number of positions of s holding v
Count(s, v) == Cardinality({p \in DOMAIN s : s[p] = v})

----------------------------------------------------------------------------
(* christofides_tsp: optimization.py 133-174 *)

\* The lists nx.approximation.christofides can hand back for n points: a tour
\* over distinct nodes, with or without the first node repeated at the end.
\* The library itself returns the closed form over all nodes; the stand-in
\* installed when networkx is missing returns the empty list.
RawCycles(n) ==
    LET open == InjSeqs(Nodes(n))
    IN  open \cup {Append(c, c[1]) : c \in open \ {<<>>}}

\* the closing element is kept
DropClosingNever(cycle) == cycle

\* the last element is dropped whether or not the list closes on itself
DropClosingAlways(cycle) ==
    IF cycle # <<>> THEN SubSeq(cycle, 1, Len(cycle) - 1) ELSE cycle

\* cycle[:-1] when the list is non-empty and closes on itself (162-163)
DropClosing(cycle) ==
    IF cycle # <<>> /\ cycle[1] = cycle[Len(cycle)]
    THEN SubSeq(cycle, 1, Len(cycle) - 1)
    ELSE cycle

\* the list is left as it is
RotateNothing(cycle) == cycle

\* cycle.append(cycle.pop(0)) (167, 170)
Rotate(cycle) == Append(Tail(cycle), Head(cycle))

ChInit ==
    /\ ch_n \in 2..MaxN
    /\ ch_start \in Nodes(ch_n)
    /\ ch_end \in Nodes(ch_n)
    /\ ch_raw \in RawCycles(ch_n)
    /\ ch_cycle = ch_raw
    /\ ch_pc = "drop"

\* 162-163
ChDrop ==
    /\ ch_pc = "drop"
    /\ ch_cycle' = DropClosing(ch_cycle)
    /\ ch_pc' = "rot_start"
    /\ UNCHANGED <<ch_n, ch_start, ch_end, ch_raw>>
    /\ UNCHANGED ch_others

\* 165-167, one iteration of the first while loop
ChRotateStartStep ==
    /\ ch_pc = "rot_start"
    /\ ch_start \in Range(ch_cycle)
    /\ ch_cycle[1] # ch_start
    /\ ch_cycle' = Rotate(ch_cycle)
    /\ UNCHANGED <<ch_n, ch_start, ch_end, ch_raw, ch_pc>>
    /\ UNCHANGED ch_others

\* 165-167, the first loop is skipped or left
ChRotateStartExit ==
    /\ ch_pc = "rot_start"
    /\ ch_start \in Range(ch_cycle) => ch_cycle[1] = ch_start
    /\ ch_pc' = "rot_end"
    /\ UNCHANGED <<ch_n, ch_start, ch_end, ch_raw, ch_cycle>>
    /\ UNCHANGED ch_others

\* 168-170, one iteration of the second while loop
ChRotateEndStep ==
    /\ ch_pc = "rot_end"
    /\ ch_end \in Range(ch_cycle)
    /\ ch_cycle[Len(ch_cycle)] # ch_end
    /\ ch_cycle' = Rotate(ch_cycle)
    /\ UNCHANGED <<ch_n, ch_start, ch_end, ch_raw, ch_pc>>
    /\ UNCHANGED ch_others

\* 168-170 and 174, the second loop is left and the list returned
ChRotateEndExit ==
    /\ ch_pc = "rot_end"
    /\ ch_end \in Range(ch_cycle)
    /\ ch_cycle[Len(ch_cycle)] = ch_end
    /\ ch_pc' = "done"
    /\ UNCHANGED <<ch_n, ch_start, ch_end, ch_raw, ch_cycle>>
    /\ UNCHANGED ch_others

\* 171-174, end is not in the list: it is appended and the list returned
ChAppendEnd ==
    /\ ch_pc = "rot_end"
    /\ ch_end \notin Range(ch_cycle)
    /\ ch_cycle' = Append(ch_cycle, ch_end)
    /\ ch_pc' = "done"
    /\ UNCHANGED <<ch_n, ch_start, ch_end, ch_raw>>
    /\ UNCHANGED ch_others

ChNext ==
    \/ ChDrop
    \/ ChRotateStartStep
    \/ ChRotateStartExit
    \/ ChRotateEndStep
    \/ ChRotateEndExit
    \/ ChAppendEnd

ChIdle ==
    /\ ch_n = 0
    /\ ch_start = 0
    /\ ch_end = 0
    /\ ch_raw = <<>>
    /\ ch_cycle = <<>>
    /\ ch_pc = "idle"

\* the raw list is a Hamiltonian cycle of the n points, closed or not
IsHamiltonian(raw, n) ==
    \E c \in {raw} \cup (IF raw # <<>> THEN {SubSeq(raw, 1, Len(raw) - 1)} ELSE {}) :
        /\ Len(c) = n
        /\ \A v \in Nodes(n) : Count(c, v) = 1
        /\ c # raw => raw[Len(raw)] = raw[1]

\* C2: for n >= 3, distinct start and end, and a Hamiltonian cycle from the
\* approximation step, the returned list begins with start and ends with end.
C2_StartFirstEndLast ==
    (ch_pc = "done" /\ ch_n >= 3 /\ ch_start # ch_end /\ IsHamiltonian(ch_raw, ch_n)) =>
        /\ ch_cycle[1] = ch_start
        /\ ch_cycle[Len(ch_cycle)] = ch_end

\* C3: for n >= 2, any start and end, and a Hamiltonian cycle from the
\* approximation step, the returned list has length n and holds each index
\* 0..n-1 exactly once.
C3_Permutation ==
    (ch_pc = "done" /\ ch_n >= 2 /\ IsHamiltonian(ch_raw, ch_n)) =>
        /\ Len(ch_cycle) = ch_n
        /\ \A v \in Nodes(ch_n) : Count(ch_cycle, v) = 1

\* a closed Hamiltonian cycle went through the drop and both rotations
C3_Witness ==
    /\ ch_pc = "done"
    /\ ch_n >= 3
    /\ IsHamiltonian(ch_raw, ch_n)
    /\ Len(ch_raw) = ch_n + 1
    /\ ch_raw[1] # ch_start
    /\ ch_cycle[1] # ch_start
    /\ ch_cycle[Len(ch_cycle)] = ch_end

\* C29: christofides_tsp terminates and returns a list for every cycle and
\* every start and end in 0..n-1, end absent from the cycle and start equal
\* to end included: both rotation loops stop.
C29_Terminates == <>(ch_pc = "done")

\* start equals end, and the first loop had to rotate to bring it to the front
C29_Witness ==
    /\ ch_pc = "done"
    /\ ch_start = ch_end
    /\ ch_raw # <<>>
    /\ ch_start \in Range(ch_raw)
    /\ ch_raw[1] # ch_start

\* C30: on 2 points with start different from end the returned list is
\* exactly [start, end], for either assignment of the two indices and
\* whichever Hamiltonian cycle the approximation step returns.
C30_TwoPoints ==
    (ch_pc = "done" /\ ch_n = 2 /\ ch_start # ch_end /\ IsHamiltonian(ch_raw, ch_n)) =>
        ch_cycle = <<ch_start, ch_end>>

\* the closed cycle began at the end point and was rotated
C30_Witness ==
    /\ ch_pc = "done"
    /\ ch_n = 2
    /\ ch_start # ch_end
    /\ ch_raw = <<ch_end, ch_start, ch_end>>
    /\ ch_cycle = <<ch_start, ch_end>>

----------------------------------------------------------------------------
(* batch_altitude: data_fetch.py 84-96, async_fetch.py 120-137 *)

\* elevation Open-Elevation holds for the point at position p of the request
Elevation(p) == 100 + 10 * p

\* The answers of Open-Elevation to a request for n locations:
\*   transport  the request raises (connection error, timeout, HTTP status)
\*   malformed  the body is not a JSON object of the expected form
\*   nokey      a JSON object without "results"
\*   results    a JSON object whose "results" holds k <= n entries in request
\*              order, each carrying its "elevation" or lacking it
AltResponses(n) ==
    {[kind |-> k, results |-> <<>>] : k \in {"transport", "malformed", "nokey"}}
    \cup
    UNION { {[kind |-> "results",
              results |-> [p \in 1..k |->
                              [has |-> has[p],
                               elevation |-> IF has[p] THEN Elevation(p) ELSE 0]]]
             : has \in [1..k -> BOOLEAN]}
            : k \in 0..n }

\* [0] * len(locs)
ZeroList(n) == [p \in 1..n |-> 0]

\* r.get("elevation", 0)
GetElevation(r) == IF r.has THEN r.elevation ELSE 0

\* data_fetch.py 84-96
BatchAltitude(resp, n) ==
    CASE resp.kind = "transport" -> ZeroList(n)        \* except RequestException
      [] resp.kind = "malformed" -> ZeroList(n)        \* except Exception
      [] resp.kind = "nokey"     -> <<>>               \* .get("results", [])
      [] resp.kind = "results"   ->
            [p \in 1..Len(resp.results) |-> GetElevation(resp.results[p])]

\* async_fetch.py 120-137
BatchAltitudeAsync(resp, n) ==
    CASE resp.kind = "transport" -> ZeroList(n)        \* except ClientError, TimeoutError
      [] resp.kind = "malformed" -> ZeroList(n)        \* except Exception
      [] resp.kind = "nokey"     -> <<>>               \* .get("results", [])
      [] resp.kind = "results"   ->
            [p \in 1..Len(resp.results) |-> GetElevation(resp.results[p])]

AlInit ==
    /\ al_variant \in {"sync", "async"}
    /\ al_n \in 1..MaxPts
    /\ al_resp \in AltResponses(al_n)
    /\ al_ret = <<>>
    /\ al_pc = "call"

AlCall ==
    /\ al_pc = "call"
    /\ al_variant = "sync"
    /\ al_ret' = BatchAltitude(al_resp, al_n)
    /\ al_pc' = "done"
    /\ UNCHANGED <<al_variant, al_n, al_resp>>
    /\ UNCHANGED al_others

AlCallAsync ==
    /\ al_pc = "call"
    /\ al_variant = "async"
    /\ al_ret' = BatchAltitudeAsync(al_resp, al_n)
    /\ al_pc' = "done"
    /\ UNCHANGED <<al_variant, al_n, al_resp>>
    /\ UNCHANGED al_others

AlNext ==
    \/ AlCall
    \/ AlCallAsync

AlIdle ==
    /\ al_variant = "idle"
    /\ al_n = 0
    /\ al_resp = [kind |-> "idle", results |-> <<>>]
    /\ al_ret = <<>>
    /\ al_pc = "idle"

\* C8: batch_altitude returns one altitude per input point for every upstream
\* answer: either len(input) zeros, or, when upstream answered with one entry
\* per point, the value of the i-th entry at position i; never a shorter or
\* partial list.
C8_OnePerPoint ==
    al_pc = "done" =>
        /\ Len(al_ret) = al_n
        /\ \/ al_ret = ZeroList(al_n)
           \/ /\ al_resp.kind = "results"
              /\ Len(al_resp.results) = al_n
              /\ \A p \in 1..al_n : al_ret[p] = GetElevation(al_resp.results[p])

----------------------------------------------------------------------------
(* osrm_table: data_fetch.py 99-131, async_fetch.py 140-178 *)

\* max_workers=min(4, len(latlons))
MaxWorkers == 4

\* The routing service's distance tables: square, zero on the diagonal, not
\* symmetric.  The slope orders the sources by their distance to a target:
\* growing with the index (1), equal (0) or shrinking (-1).
Slopes == {-1, 0, 1}

UpstreamTable(n, slope) ==
    [i \in Nodes(n) |->
        [j \in Nodes(n) |-> IF i = j THEN 0 ELSE 50 + 10 * slope * i + j]]

\* [0] * len(latlons)
ZeroRow(n) == [j \in Nodes(n) |-> 0]

\* [[0] * len(latlons) for _ in latlons]
ZeroMatrix(n) == [i \in Nodes(n) |-> ZeroRow(n)]

\* How a request can end.  Bulk request (104-109, 129-131):
\*   data       200, JSON with "distances"
\*   nokey      200, JSON object without "distances"
\*   transport  requests.RequestException / aiohttp.ClientError, TimeoutError
\*   other      any other exception while reading the answer
\* Row request (112-118):
\*   data       200, JSON with "distances" holding the one row
\*   nokey      200, JSON object without "distances"
\*   empty      200, "distances" is an empty list
\*   error      any exception of the request or of reading the answer
BulkOutcomes == {"data", "nokey", "transport", "other"}

RowOutcomes == {"data", "nokey", "empty", "error"}

\* fetch_row returns the default row where it returns None
FetchRowZeroOnError(i, outcome, n, slope) ==
    [idx |-> i,
     row |-> IF outcome = "data" THEN Some(UpstreamTable(n, slope)[i])
             ELSE Some(ZeroRow(n))]

\* fetch_row (data_fetch.py 111-118, async_fetch.py 155-167): the pair it returns
FetchRow(i, outcome, n, slope) ==
    [idx |-> i,
     row |-> CASE outcome = "data"  -> Some(UpstreamTable(n, slope)[i])
               [] outcome = "nokey" -> Some(ZeroRow(n))   \* .get("distances", [[0]*n])[0]
               [] outcome = "empty" -> NoneVal            \* [][0]: IndexError, caught
               [] outcome = "error" -> NoneVal]

\* the row is put in the first free slot, that is in completion order
StoreRowInArrivalOrder(results, idx, row) ==
    LET free == CHOOSE j \in DOMAIN results :
                    /\ ~results[j].some
                    /\ \A k \in DOMAIN results : ~results[k].some => j <= k
    IN  [results EXCEPT ![free] = row]

\* results[idx] = row (data_fetch.py 127, async_fetch.py 174)
StoreRow(results, idx, row) == [results EXCEPT ![idx] = row]

Finished(t) == t \in RowOutcomes

\* rows that may run at once: the pool's workers, or every task of the gather
Workers(variant, n) == IF variant = "sync" THEN Min(MaxWorkers, n) ELSE n

OsInit ==
    /\ os_variant \in {"sync", "async"}
    /\ os_n \in 1..MaxRows
    /\ os_slope \in Slopes
    /\ os_bulk = "pending"
    /\ os_task = [i \in Nodes(os_n) |-> "idle"]
    /\ os_seen = <<>>
    /\ os_results = <<>>
    /\ os_ret = <<>>
    /\ os_pc = "bulk"

\* 104-107: the bulk request succeeds and its table is returned
OsBulkData ==
    /\ os_pc = "bulk"
    /\ os_bulk' = "data"
    /\ os_ret' = UpstreamTable(os_n, os_slope)
    /\ os_pc' = "done"
    /\ UNCHANGED <<os_variant, os_n, os_slope, os_task, os_seen, os_results>>
    /\ UNCHANGED os_others

\* 107: .get("distances", []) on an answer without the key
OsBulkNoKey ==
    /\ os_pc = "bulk"
    /\ os_bulk' = "nokey"
    /\ os_ret' = <<>>
    /\ os_pc' = "done"
    /\ UNCHANGED <<os_variant, os_n, os_slope, os_task, os_seen, os_results>>
    /\ UNCHANGED os_others

\* 108-109, 120-122: transport error, one row request per source is submitted
OsBulkTransport ==
    /\ os_pc = "bulk"
    /\ os_bulk' = "transport"
    /\ os_task' = [i \in Nodes(os_n) |-> "queued"]
    /\ os_results' = [i \in Nodes(os_n) |-> NoneVal]
    /\ os_pc' = "rows"
    /\ UNCHANGED <<os_variant, os_n, os_slope, os_seen, os_ret>>
    /\ UNCHANGED os_others

\* 129-131: any other exception of the bulk path
OsBulkOther ==
    /\ os_pc = "bulk"
    /\ os_bulk' = "other"
    /\ os_ret' = ZeroMatrix(os_n)
    /\ os_pc' = "done"
    /\ UNCHANGED <<os_variant, os_n, os_slope, os_task, os_seen, os_results>>
    /\ UNCHANGED os_others

\* a worker (a task of the gather) starts the next queued row request
OsRowStart(i) ==
    /\ os_pc \in {"rows", "exit"}
    /\ os_task[i] = "queued"
    /\ \A j \in Nodes(os_n) : j < i => os_task[j] # "queued"
    /\ Cardinality({j \in Nodes(os_n) : os_task[j] = "running"})
           < Workers(os_variant, os_n)
    /\ os_task' = [os_task EXCEPT ![i] = "running"]
    /\ UNCHANGED <<os_variant, os_n, os_slope, os_bulk, os_seen, os_results,
                   os_ret, os_pc>>
    /\ UNCHANGED os_others

\* 112-118: the row request of source i ends
OsRowFinish(i, outcome) ==
    /\ os_pc \in {"rows", "exit"}
    /\ os_task[i] = "running"
    /\ os_task' = [os_task EXCEPT ![i] = outcome]
    /\ UNCHANGED <<os_variant, os_n, os_slope, os_bulk, os_seen, os_results,
                   os_ret, os_pc>>
    /\ UNCHANGED os_others

\* The assembling loop takes the result of row request i.
\* data_fetch.py 123-127: as_completed yields a finished future, in any order.
\* async_fetch.py 171-174: gather has awaited every task and its list is in
\* task order.
OsTake(i) ==
    /\ os_pc = "rows"
    /\ i \notin Range(os_seen)
    /\ Finished(os_task[i])
    /\ os_variant = "async" =>
          /\ \A j \in Nodes(os_n) : Finished(os_task[j])
          /\ \A j \in Nodes(os_n) : j < i => j \in Range(os_seen)
    /\ LET r == FetchRow(i, os_task[i], os_n, os_slope)
       IN  IF ~r.row.some
           THEN /\ os_ret' = ZeroMatrix(os_n)
                /\ os_pc' = "exit"
                /\ UNCHANGED <<os_seen, os_results>>
           ELSE /\ os_results' = StoreRow(os_results, r.idx, r.row)
                /\ os_seen' = Append(os_seen, i)
                /\ UNCHANGED <<os_ret, os_pc>>
    /\ UNCHANGED <<os_variant, os_n, os_slope, os_bulk, os_task>>
    /\ UNCHANGED os_others

\* 128: every result was taken, `results` is returned
OsReturnResults ==
    /\ os_pc = "rows"
    /\ Range(os_seen) = Nodes(os_n)
    /\ os_ret' = [i \in Nodes(os_n) |-> os_results[i].val]
    /\ os_pc' = "exit"
    /\ UNCHANGED <<os_variant, os_n, os_slope, os_bulk, os_task, os_seen, os_results>>
    /\ UNCHANGED os_others

\* Leaving the `with ThreadPoolExecutor` block waits for the row requests still
\* running (121); the gather has awaited them all before the loop.
OsExit ==
    /\ os_pc = "exit"
    /\ \A j \in Nodes(os_n) : Finished(os_task[j])
    /\ os_pc' = "done"
    /\ UNCHANGED <<os_variant, os_n, os_slope, os_bulk, os_task, os_seen,
                   os_results, os_ret>>
    /\ UNCHANGED os_others

OsNext ==
    \/ OsBulkData
    \/ OsBulkNoKey
    \/ OsBulkTransport
    \/ OsBulkOther
    \/ \E i \in Nodes(os_n) : OsRowStart(i)
    \/ \E i \in Nodes(os_n), outcome \in RowOutcomes : OsRowFinish(i, outcome)
    \/ \E i \in Nodes(os_n) : OsTake(i)
    \/ OsReturnResults
    \/ OsExit

OsIdle ==
    /\ os_variant = "idle"
    /\ os_n = 0
    /\ os_slope = 0
    /\ os_bulk = "idle"
    /\ os_task = <<>>
    /\ os_seen = <<>>
    /\ os_results = <<>>
    /\ os_ret = <<>>
    /\ os_pc = "idle"

\* the row request of source i raised inside fetch_row
RowFailed(i) == os_task[i] \in {"empty", "error"}

\* C4: the bulk request failed with a transport error and every row request
\* delivered its row: whatever the order of completion, row i of the returned
\* matrix is the row the routing service returned for source index i.
C4_RowsBySourceIndex ==
    (/\ os_pc = "done"
     /\ os_bulk = "transport"
     /\ \A i \in Nodes(os_n) : os_task[i] = "data") =>
        /\ DOMAIN os_ret = Nodes(os_n)
        /\ \A i \in Nodes(os_n) : os_ret[i] = UpstreamTable(os_n, os_slope)[i]

\* every row was delivered and the thread pool's results were taken in an
\* order other than the source order
C4_Witness ==
    /\ os_pc = "done"
    /\ os_variant = "sync"
    /\ os_bulk = "transport"
    /\ os_n >= 3
    /\ \A i \in Nodes(os_n) : os_task[i] = "data"
    /\ os_seen[1] = 2
    /\ os_seen[2] = 0

\* C5: the bulk request failed and at least one row request failed: the
\* returned matrix is the n x n zero matrix, whichever row failed and in
\* whatever order the rows completed.
C5_RowFailureGivesZeroMatrix ==
    (/\ os_pc = "done"
     /\ os_bulk = "transport"
     /\ \E i \in Nodes(os_n) : RowFailed(i)) =>
        os_ret = ZeroMatrix(os_n)

\* a row failed after two delivered rows had been stored
C5_Witness ==
    /\ os_pc = "done"
    /\ os_bulk = "transport"
    /\ os_n >= 3
    /\ Len(os_seen) = 2
    /\ \E i \in Nodes(os_n) : RowFailed(i) /\ i \notin Range(os_seen)
    /\ \A i \in Range(os_seen) : os_task[i] = "data"
    /\ os_ret = ZeroMatrix(os_n)

\* C6: no partial success in the degraded build: the returned matrix is made
\* only of rows the routing service delivered for each source index, or it is
\* entirely zero; a row answer without distance data counts as a failed row.
C6_NoPartialSuccess ==
    (os_pc = "done" /\ os_bulk = "transport") =>
        \/ os_ret = ZeroMatrix(os_n)
        \/ /\ DOMAIN os_ret = Nodes(os_n)
           /\ \A i \in Nodes(os_n) :
                 /\ os_task[i] = "data"
                 /\ os_ret[i] = UpstreamTable(os_n, os_slope)[i]

\* C7: on every path (bulk success, per-row fallback, total failure) the
\* returned matrix has n rows of n entries and a zero diagonal.
C7_SquareZeroDiagonal ==
    os_pc = "done" =>
        /\ DOMAIN os_ret = Nodes(os_n)
        /\ \A i \in Nodes(os_n) :
              /\ DOMAIN os_ret[i] = Nodes(os_n)
              /\ os_ret[i][i] = 0

----------------------------------------------------------------------------
(* run_ui.on_compute: ui.py 79-101 *)

\* The matrices osrm_table can return for n >= 1 points (data_fetch.py 99-131):
\* the bulk table, the empty default, the zero matrix, or the rows assembled
\* from row requests none of which returned None.
OsrmReturns(n, slope) ==
    {UpstreamTable(n, slope), <<>>, ZeroMatrix(n)}
    \cup
    {[i \in Nodes(n) |-> FetchRow(i, o[i], n, slope).row.val]
        : o \in [Nodes(n) -> {"data", "nokey"}]}

\* the last index of the range with the smallest key
MinByKeyLast(dist, end_idx) ==
    CHOOSE i \in 1..(end_idx - 1) :
        \A k \in 1..(end_idx - 1) :
            \/ dist[i][end_idx] < dist[k][end_idx]
            \/ dist[i][end_idx] = dist[k][end_idx] /\ i >= k

\* min(range(1, end_idx), key=lambda i: dist[i][end_idx]) (ui.py 91): the first
\* index of the range with the smallest key
MinByKey(dist, end_idx) ==
    CHOOSE i \in 1..(end_idx - 1) :
        \A k \in 1..(end_idx - 1) :
            \/ dist[i][end_idx] < dist[k][end_idx]
            \/ dist[i][end_idx] = dist[k][end_idx] /\ i <= k

\* What solve_tsp can return (optimization.py 8-51): None when the search finds
\* no solution, else the nodes on the vehicle's path from routing.Start(0) to
\* its end, which the routing model makes a path through all n nodes from
\* `start` to `end`.
SolveTspReturns(n, start, end) ==
    {NoneVal} \cup
    {Some(r) : r \in {s \in InjSeqs(Nodes(n)) :
                        Len(s) = n /\ s[1] = start /\ s[n] = end}}

OcInit ==
    /\ oc_n \in 2..MaxPts
    /\ oc_slope \in Slopes
    /\ oc_alts = <<>>
    /\ oc_m = oc_n
    /\ oc_dist = <<>>
    /\ oc_best = 0
    /\ oc_route = NoneVal
    /\ oc_pc = "check"

\* 79-81: fewer than 3 points
OcReject ==
    /\ oc_pc = "check"
    /\ oc_n < 3
    /\ oc_pc' = "rejected"
    /\ UNCHANGED <<oc_n, oc_slope, oc_alts, oc_m, oc_dist, oc_best, oc_route>>
    /\ UNCHANGED oc_others

\* 79, 84-85: altitudes are fetched and zipped with the coordinates; zip stops
\* at the shorter of the two lists
OcAltitudes ==
    /\ oc_pc = "check"
    /\ oc_n >= 3
    /\ \E resp \in AltResponses(oc_n) :
          /\ oc_alts' = BatchAltitude(resp, oc_n)
          /\ oc_m' = Min(oc_n, Len(BatchAltitude(resp, oc_n)))
    /\ oc_pc' = "matrix"
    /\ UNCHANGED <<oc_n, oc_slope, oc_dist, oc_best, oc_route>>
    /\ UNCHANGED oc_others

\* 88: dist = osrm_table(...)
OcMatrix ==
    /\ oc_pc = "matrix"
    /\ oc_m >= 1
    /\ oc_dist' \in OsrmReturns(oc_m, oc_slope)
    /\ oc_pc' = "best"
    /\ UNCHANGED <<oc_n, oc_slope, oc_alts, oc_m, oc_best, oc_route>>
    /\ UNCHANGED oc_others

\* 88 with no coordinate left: the bulk answer or the zero matrix is the empty
\* list
OcMatrixNoPoints ==
    /\ oc_pc = "matrix"
    /\ oc_m = 0
    /\ oc_dist' = <<>>
    /\ oc_pc' = "best"
    /\ UNCHANGED <<oc_n, oc_slope, oc_alts, oc_m, oc_best, oc_route>>
    /\ UNCHANGED oc_others

\* 88 with no coordinate left and a bulk transport error: the pool is built
\* with max_workers=0 and raises ValueError (data_fetch.py 121)
OcMatrixRaises ==
    /\ oc_pc = "matrix"
    /\ oc_m = 0
    /\ oc_pc' = "raised"
    /\ UNCHANGED <<oc_n, oc_slope, oc_alts, oc_m, oc_dist, oc_best, oc_route>>
    /\ UNCHANGED oc_others

\* 90-91: min() of an empty range raises ValueError, dist[i] of a matrix
\* without row i raises IndexError
OcBestRaises ==
    /\ oc_pc = "best"
    /\ \/ oc_m - 2 < 1
       \/ DOMAIN oc_dist # Nodes(oc_m)
    /\ oc_pc' = "raised"
    /\ UNCHANGED <<oc_n, oc_slope, oc_alts, oc_m, oc_dist, oc_best, oc_route>>
    /\ UNCHANGED oc_others

\* 90-91
OcBest ==
    /\ oc_pc = "best"
    /\ oc_m - 2 >= 1
    /\ DOMAIN oc_dist = Nodes(oc_m)
    /\ oc_best' = MinByKey(oc_dist, oc_m - 1)
    /\ oc_pc' = "solve"
    /\ UNCHANGED <<oc_n, oc_slope, oc_alts, oc_m, oc_dist, oc_route>>
    /\ UNCHANGED oc_others

\* 94-97: route = solve_tsp(dist, 0, best), None ends the request
OcSolve ==
    /\ oc_pc = "solve"
    /\ oc_route' \in SolveTspReturns(oc_m, 0, oc_best)
    /\ oc_pc' = IF oc_route'.some THEN "append" ELSE "failed"
    /\ UNCHANGED <<oc_n, oc_slope, oc_alts, oc_m, oc_dist, oc_best>>
    /\ UNCHANGED oc_others

\* 98, 101: route.append(end_idx), then the route goes to build_map
OcAppend ==
    /\ oc_pc = "append"
    /\ oc_route' = Some(Append(oc_route.val, oc_m - 1))
    /\ oc_pc' = "handoff"
    /\ UNCHANGED <<oc_n, oc_slope, oc_alts, oc_m, oc_dist, oc_best>>
    /\ UNCHANGED oc_others

OcNext ==
    \/ OcReject
    \/ OcAltitudes
    \/ OcMatrix
    \/ OcMatrixNoPoints
    \/ OcMatrixRaises
    \/ OcBestRaises
    \/ OcBest
    \/ OcSolve
    \/ OcAppend

OcIdle ==
    /\ oc_n = 0
    /\ oc_slope = 0
    /\ oc_alts = <<>>
    /\ oc_m = 0
    /\ oc_dist = <<>>
    /\ oc_best = 0
    /\ oc_route = NoneVal
    /\ oc_pc = "idle"

\* C1: for n >= 3 candidate points and every route the constrained solver
\* returns, the route handed off for rendering has length n, begins at index 0,
\* ends at index n-1 and holds every index 0..n-1 exactly once.
C1_HandedOffRouteValid ==
    (oc_pc = "handoff" /\ oc_m >= 3) =>
        /\ Len(oc_route.val) = oc_m
        /\ oc_route.val[1] = 0
        /\ oc_route.val[oc_m] = oc_m - 1
        /\ \A v \in Nodes(oc_m) : Count(oc_route.val, v) = 1

\* C27: the pre-selected waypoint is a candidate strictly between index 0 and
\* the last index, no candidate is nearer to the end point, and every
\* candidate of a lower index is strictly farther from it.
C27_NearestLowestIndex ==
    oc_pc = "solve" =>
        /\ oc_best \in 1..(oc_m - 2)
        /\ \A k \in 1..(oc_m - 2) :
                oc_dist[oc_best][oc_m - 1] <= oc_dist[k][oc_m - 1]
        /\ \A k \in 1..(oc_best - 1) :
                oc_dist[oc_best][oc_m - 1] < oc_dist[k][oc_m - 1]

\* two candidates at the same distance from the end point
C27_Witness ==
    /\ oc_pc = "solve"
    /\ \E k \in 1..(oc_m - 2) :
            /\ k # oc_best
            /\ oc_dist[k][oc_m - 1] = oc_dist[oc_best][oc_m - 1]

----------------------------------------------------------------------------
(* geocode_strict_single, geocode_fallback_single: geocoding.py 121-183 *)

\* Strings are sequences of characters, so that building a cache key is the
\* concatenation the f-string performs.
StrictPrefix == <<"s", "t", "r", "i", "c", "t">>

FallbackPrefix == <<"f", "a", "l", "l", "b", "a", "c", "k">>

Bar == <<"|">>

\* city names typed into the form; free text
Cities == {<<"c">>, <<"b", "|", "c">>}

\* the (address, city) pairs looked up; the last two build the same key
Inputs ==
    {<<<<"a">>, <<"c">>>>, <<<<"a", "|", "b">>, <<"c">>>>, <<<<"a">>, <<"b", "|", "c">>>>}

Modes == {"strict", "fallback"}

\* str.lower()
LowerChar(ch) ==
    CASE ch = "A" -> "a"
      [] ch = "B" -> "b"
      [] ch = "C" -> "c"
      [] ch = "X" -> "x"
      [] OTHER -> ch

Lower(s) == [p \in DOMAIN s |-> LowerChar(s[p])]

\* the same name as a provider may spell it in the address of a result
UpperChar(ch) ==
    CASE ch = "a" -> "A"
      [] ch = "b" -> "B"
      [] ch = "c" -> "C"
      [] OTHER -> ch

Upper(s) == [p \in DOMAIN s |-> UpperChar(s[p])]

\* the key ignores the mode
KeyWithoutMode(mode, address, city) == address \o Bar \o city

\* f"strict|{address}|{city}" (123), f"fallback|{address}|{city}" (151)
Key(mode, address, city) ==
    (IF mode = "strict" THEN StrictPrefix ELSE FallbackPrefix)
        \o Bar \o address \o Bar \o city

\* the bounding box Nominatim holds for a city: (south, north, west, east)
CityBox == <<0, 2, 0, 2>>

\* coordinates a provider can answer with: one inside CityBox, one outside
Points == {<<1, 1>>, <<5, 5>>}

\* the four limits themselves count as outside
DentroDaCidadeExclusive(lat, lon, bbox) ==
    /\ bbox[1] < lat /\ lat < bbox[2]
    /\ bbox[3] < lon /\ lon < bbox[4]

\* dentro_da_cidade (101-118): bbox is (south, north, west, east)
DentroDaCidade(lat, lon, bbox) ==
    /\ bbox[1] <= lat /\ lat <= bbox[2]
    /\ bbox[3] <= lon /\ lon <= bbox[4]

\* get_city_area_id (28-46): the name `requests` is not bound in geocoding.py,
\* so requests.post raises NameError inside the try, which line 44 catches:
\* the function returns None for every city.
GetCityAreaId(city) == NoneVal

\* get_city_polygon (49-75): get_city_area_id returns None, so line 56 returns
\* None for every city
GetCityPolygon(city) == NoneVal

\* point_in_polygon (78-85); a polygon is the set of the points it contains
PointInPolygon(lat, lon, poly) ==
    IF ~poly.some THEN TRUE ELSE <<lat, lon>> \in poly.val

\* How the boundary lookup of get_city_bbox can end upstream (91-98):
\*   bbox   a location with a "boundingbox"
\*   none   no location, or one without "boundingbox"
\*   raise  _city_geolocator.geocode raises; nothing catches it
BboxOutcomes == {"bbox", "none", "raise"}

\* How a call of geocode_rl or photon_geocode_rl can end:
\*   none     no result
\*   timeout  GeocoderTimedOut
\*   error    any other exception
\*   loc      a location; ctag is addr.get("city") or addr.get("town") or
\*            addr.get("village"), the empty string when none is present
ProviderOutcomes(city) ==
    {[kind |-> k, lat |-> 0, lon |-> 0, ctag |-> <<>>] : k \in {"none", "timeout", "error"}}
    \cup
    {[kind |-> "loc", lat |-> p[1], lon |-> p[2], ctag |-> t]
        : p \in Points, t \in {<<>>, Upper(city), <<"X">>}}

\* get_city_bbox (88-98) behind lru_cache: a cached city is answered from the
\* cache, a raised exception is not cached.  The cache holds 64 cities; the
\* model has fewer, so none is evicted.
GetCityBbox(bcache, city, up) ==
    IF bcache[city].cached
    THEN [raised |-> FALSE, bbox |-> bcache[city].bbox, bcache |-> bcache, bq |-> 0]
    ELSE CASE up = "raise" ->
                [raised |-> TRUE, bbox |-> NoneVal, bcache |-> bcache, bq |-> 1]
           [] up = "none" ->
                [raised |-> FALSE, bbox |-> NoneVal,
                 bcache |-> [bcache EXCEPT ![city] = [cached |-> TRUE, bbox |-> NoneVal]],
                 bq |-> 1]
           [] up = "bbox" ->
                [raised |-> FALSE, bbox |-> Some(CityBox),
                 bcache |-> [bcache EXCEPT ![city] = [cached |-> TRUE, bbox |-> Some(CityBox)]],
                 bq |-> 1]

\* every answer of a provider is taken, the absent one included
CheckLocationAcceptsAll(out, city, bbox, poly) == "accept"

\* The checks on a provider's answer (136-143, 161-168, 173-180):
\*   skip    the `if loc and ...` does not hold, the code goes on below it
\*   reject  return None from inside the if
\*   accept  the coordinate is stored and returned
CheckLocation(out, city, bbox, poly) ==
    IF out.kind # "loc" THEN "skip"
    ELSE IF bbox.some /\ ~DentroDaCidade(out.lat, out.lon, bbox.val) THEN "skip"
    ELSE IF out.ctag # <<>> /\ Lower(out.ctag) # Lower(city) THEN "reject"
    ELSE IF ~PointInPolygon(out.lat, out.lon, poly) THEN "reject"
    ELSE "accept"

\* the value is returned without being stored
SetDefaultForgets(cache, key, value) == cache

\* _cache_geo[key] = value: the last writer's value replaces the stored one
SetDefaultOverwrites(cache, key, value) ==
    IF key \in DOMAIN cache THEN [cache EXCEPT ![key] = value]
    ELSE cache @@ (key :> value)

\* _cache_geo.setdefault(key, value) (143, 168, 180): the mapping afterwards
SetDefault(cache, key, value) ==
    IF key \in DOMAIN cache THEN cache ELSE cache @@ (key :> value)

\* _cache_geo.setdefault(key, value): the value it returns
SetDefaultValue(cache, key, value) ==
    IF key \in DOMAIN cache THEN cache[key] ELSE value

\* what a call leaves behind: its result, whether it raised, the two caches
\* and how many requests went to the boundary provider (bq), to Nominatim (nq)
\* and to Photon (pq)
Outcome(result, raised, cache, bcache, bq, nq, pq) ==
    [result |-> result, raised |-> raised, cache |-> cache, bcache |-> bcache,
     bq |-> bq, nq |-> nq, pq |-> pq]

\* geocode_strict_single (121-146)
GeocodeStrictSingle(cache, bcache, address, city, bup, nom) ==
    LET key == Key("strict", address, city)
        b == GetCityBbox(bcache, city, bup)
        poly == GetCityPolygon(city)
        chk == CheckLocation(nom, city, b.bbox, poly)
        stored == SetDefault(cache, key, <<nom.lat, nom.lon>>)
        value == SetDefaultValue(cache, key, <<nom.lat, nom.lon>>)
    IN  IF key \in DOMAIN cache                                      \* 124-125
        THEN Outcome(Some(cache[key]), FALSE, cache, bcache, 0, 0, 0)
        ELSE IF b.raised                                             \* 126
        THEN Outcome(NoneVal, TRUE, cache, b.bcache, b.bq, 0, 0)
        ELSE IF nom.kind = "error"                                   \* 133, 135
        THEN Outcome(NoneVal, TRUE, cache, b.bcache, b.bq, 1, 0)
        ELSE IF nom.kind = "timeout"                                 \* 144-146
        THEN Outcome(NoneVal, FALSE, cache, b.bcache, b.bq, 1, 0)
        ELSE IF chk = "accept"                                       \* 143
        THEN Outcome(Some(value), FALSE, stored, b.bcache, b.bq, 1, 0)
        ELSE Outcome(NoneVal, FALSE, cache, b.bcache, b.bq, 1, 0)    \* 140, 142, 146

\* geocode_fallback_single (149-183)
GeocodeFallbackSingle(cache, bcache, address, city, bup, nom, pho) ==
    LET key == Key("fallback", address, city)
        b == GetCityBbox(bcache, city, bup)
        poly == GetCityPolygon(city)
        chk1 == IF nom.kind \in {"timeout", "error"} THEN "skip"     \* 169-170
                ELSE CheckLocation(nom, city, b.bbox, poly)
        chk2 == IF pho.kind \in {"timeout", "error"} THEN "skip"     \* 181-182
                ELSE CheckLocation(pho, city, b.bbox, poly)
        stored1 == SetDefault(cache, key, <<nom.lat, nom.lon>>)
        stored2 == SetDefault(cache, key, <<pho.lat, pho.lon>>)
        value1 == SetDefaultValue(cache, key, <<nom.lat, nom.lon>>)
        value2 == SetDefaultValue(cache, key, <<pho.lat, pho.lon>>)
    IN  IF key \in DOMAIN cache                                      \* 152-153
        THEN Outcome(Some(cache[key]), FALSE, cache, bcache, 0, 0, 0)
        ELSE IF b.raised                                             \* 154
        THEN Outcome(NoneVal, TRUE, cache, b.bcache, b.bq, 0, 0)
        ELSE IF chk1 = "accept"                                      \* 168
        THEN Outcome(Some(value1), FALSE, stored1, b.bcache, b.bq, 1, 0)
        ELSE IF chk1 = "reject"                                      \* 165, 167
        THEN Outcome(NoneVal, FALSE, cache, b.bcache, b.bq, 1, 0)
        ELSE IF chk2 = "accept"                                      \* 180
        THEN Outcome(Some(value2), FALSE, stored2, b.bcache, b.bq, 1, 1)
        ELSE Outcome(NoneVal, FALSE, cache, b.bcache, b.bq, 1, 1)    \* 177, 179, 183

NoCall ==
    [mode |-> "none", address |-> <<>>, city |-> <<>>,
     result |-> NoneVal, raised |-> FALSE, bq |-> 0, nq |-> 0, pq |-> 0,
     earlier |-> {}, afterStrictMiss |-> FALSE, ctag |-> <<>>]

GeoInit ==
    /\ geo_cache = <<>>
    /\ geo_bcache = [c \in Cities |-> [cached |-> FALSE, bbox |-> NoneVal]]
    /\ geo_last = NoCall
    /\ geo_succeeded = {}
    /\ geo_origin = <<>>
    /\ geo_checked = <<>>

\* history: the calls that returned a coordinate, with the coordinate
Succeeded(mode, address, city, r) ==
    IF r.result.some
    THEN geo_succeeded \cup
            {[mode |-> mode, address |-> address, city |-> city, coord |-> r.result.val]}
    ELSE geo_succeeded

\* history: the coordinates earlier identical calls returned
Earlier(mode, address, city) ==
    {s.coord : s \in {t \in geo_succeeded :
                        t.mode = mode /\ t.address = address /\ t.city = city}}

\* history: the mode of the call that stored a key
Origin(mode, address, city, r) ==
    LET key == Key(mode, address, city)
    IN  IF key \notin DOMAIN geo_cache /\ key \in DOMAIN r.cache
        THEN geo_origin @@ (key :> mode)
        ELSE geo_origin

\* history: the city whose checks the coordinate stored under a key passed
Checked(mode, address, city, r) ==
    LET key == Key(mode, address, city)
    IN  IF key \notin DOMAIN geo_cache /\ key \in DOMAIN r.cache
        THEN geo_checked @@ (key :> city)
        ELSE geo_checked

\* the locality tag of the provider answer a call accepted, the empty string
\* when it accepted none
AcceptedTag(r, nom, pho) ==
    IF ~r.result.some \/ r.nq = 0 THEN <<>>
    ELSE IF r.pq = 1 THEN pho.ctag
    ELSE nom.ctag

\* the answers of the boundary provider a call can meet: none is drawn when
\* the call is answered from _cache_geo or the city from the lru_cache
BboxDraws(mode, address, city) ==
    IF Key(mode, address, city) \in DOMAIN geo_cache \/ geo_bcache[city].cached
    THEN {"none"}
    ELSE BboxOutcomes

\* the answers of a geocoding provider a call can meet
ProviderDraws(mode, address, city) ==
    IF Key(mode, address, city) \in DOMAIN geo_cache
    THEN {[kind |-> "none", lat |-> 0, lon |-> 0, ctag |-> <<>>]}
    ELSE ProviderOutcomes(city)

\* one call of geocode_strict_single
GeoStrictCall(address, city) ==
    \E r \in {LET o == GeocodeStrictSingle(geo_cache, geo_bcache, address, city, bup, nom)
              IN  o @@ [ctag |-> AcceptedTag(o, nom, nom)]
                : bup \in BboxDraws("strict", address, city),
                  nom \in ProviderDraws("strict", address, city)} :
        /\ geo_cache' = r.cache
        /\ geo_bcache' = r.bcache
        /\ geo_last' = [mode |-> "strict", address |-> address, city |-> city,
                        result |-> r.result, raised |-> r.raised,
                        bq |-> r.bq, nq |-> r.nq, pq |-> r.pq,
                        earlier |-> Earlier("strict", address, city),
                        afterStrictMiss |-> FALSE, ctag |-> r.ctag]
        /\ geo_succeeded' = Succeeded("strict", address, city, r)
        /\ geo_origin' = Origin("strict", address, city, r)
        /\ geo_checked' = Checked("strict", address, city, r)
        /\ UNCHANGED geo_others

\* one call of geocode_fallback_single
GeoFallbackCall(address, city) ==
    \E r \in {LET o == GeocodeFallbackSingle(geo_cache, geo_bcache, address, city,
                                               bup, nom, pho)
              IN  o @@ [ctag |-> AcceptedTag(o, nom, pho)]
                : bup \in BboxDraws("fallback", address, city),
                  nom \in ProviderDraws("fallback", address, city),
                  pho \in ProviderDraws("fallback", address, city)} :
        /\ geo_cache' = r.cache
        /\ geo_bcache' = r.bcache
        /\ geo_last' = [mode |-> "fallback", address |-> address, city |-> city,
                        result |-> r.result, raised |-> r.raised,
                        bq |-> r.bq, nq |-> r.nq, pq |-> r.pq,
                        earlier |-> Earlier("fallback", address, city),
                        afterStrictMiss |->
                            /\ geo_last.mode = "strict"
                            /\ geo_last.address = address
                            /\ geo_last.city = city
                            /\ ~geo_last.result.some
                            /\ ~geo_last.raised,
                        ctag |-> r.ctag]
        /\ geo_succeeded' = Succeeded("fallback", address, city, r)
        /\ geo_origin' = Origin("fallback", address, city, r)
        /\ geo_checked' = Checked("fallback", address, city, r)
        /\ UNCHANGED geo_others

GeoNext ==
    \/ \E in \in Inputs : GeoStrictCall(in[1], in[2])
    \/ \E in \in Inputs : GeoFallbackCall(in[1], in[2])

GeoIdle ==
    /\ geo_cache = <<>>
    /\ geo_bcache = <<>>
    /\ geo_last = NoCall
    /\ geo_succeeded = {}
    /\ geo_origin = <<>>
    /\ geo_checked = <<>>

----------------------------------------------------------------------------
LastKey == Key(geo_last.mode, geo_last.address, geo_last.city)

\* the last call was answered without a request to any provider
NoProviderAsked == geo_last.bq = 0 /\ geo_last.nq = 0 /\ geo_last.pq = 0

\* C9: once a lookup of (mode, address, city) has returned a coordinate, every
\* later identical call, whatever lookups came in between, returns that same
\* coordinate and sends no request to the boundary provider, to Nominatim or
\* to Photon.
C9_RepeatAnsweredFromCache ==
    geo_last.earlier # {} =>
        /\ ~geo_last.raised
        /\ geo_last.result.some
        /\ geo_last.earlier = {geo_last.result.val}
        /\ NoProviderAsked

\* a lookup that succeeded before is repeated and answered with no request
C9_Witness ==
    /\ geo_last.earlier # {}
    /\ geo_last.result.some
    /\ NoProviderAsked
    /\ Cardinality(geo_succeeded) >= 2

\* no strict key is a fallback key, and a returned coordinate is the cache
\* entry of the call's own key, stored by a call of the same mode
OwnModeAnswers ==
    /\ \A i, j \in Inputs : Key("strict", i[1], i[2]) # Key("fallback", j[1], j[2])
    /\ (geo_last.result.some =>
            /\ LastKey \in DOMAIN geo_cache
            /\ geo_cache[LastKey] = geo_last.result.val
            /\ LastKey \in DOMAIN geo_origin
            /\ geo_origin[LastKey] = geo_last.mode)

\* C10: strict and fallback lookups use distinct cache keys and a coordinate
\* cached by one mode is never the answer of the other; a fallback lookup
\* that follows a failed strict lookup of the same input asks Nominatim,
\* unless an earlier fallback lookup already cached a coordinate under the
\* fallback key, which is then returned without a request.
C10_DistinctKeysPerMode ==
    /\ OwnModeAnswers
    /\ (geo_last.afterStrictMiss =>
            \/ geo_last.nq = 1
            \/ /\ NoProviderAsked
               /\ geo_last.result.some
               /\ LastKey \in DOMAIN geo_origin
               /\ geo_origin[LastKey] = "fallback")

\* a fallback lookup right after the failed strict lookup of the same input
\* asks the providers and resolves the address
C10_Witness ==
    /\ geo_last.afterStrictMiss
    /\ geo_last.nq = 1
    /\ geo_last.result.some
    /\ Key("strict", geo_last.address, geo_last.city) \notin DOMAIN geo_cache

\* C10 as stated: every fallback lookup that follows a failed strict lookup
\* of the same input asks the fallback providers
C10_FallbackAlwaysAsks ==
    /\ OwnModeAnswers
    /\ (geo_last.afterStrictMiss => geo_last.nq = 1)

----------------------------------------------------------------------------

\* every value of _cache_geo is a coordinate a provider answered with
CacheHoldsCoordinates ==
    \A k \in DOMAIN geo_cache : geo_cache[k] \in Points

\* a call that returns no coordinate leaves _cache_geo as it was, and the
\* identical call right after a not-found one asks Nominatim again
MissLeavesNoTrace ==
    /\ (~geo_last'.result.some => geo_cache' = geo_cache)
    /\ (/\ geo_last.mode # "none"
        /\ ~geo_last.result.some
        /\ ~geo_last.raised
        /\ geo_last'.mode = geo_last.mode
        /\ geo_last'.address = geo_last.address
        /\ geo_last'.city = geo_last.city) => geo_last'.nq = 1

\* C11: only successes are cached: _cache_geo maps keys to coordinates only,
\* a lookup that ended not-found leaves the cache unchanged, and the next
\* identical lookup queries upstream again.
C11_OnlySuccessesCached ==
    /\ []CacheHoldsCoordinates
    /\ [][MissLeavesNoTrace]_vars

\* a lookup ended not-found after asking Nominatim, beside a cached key, and
\* its own key is not in the cache
C11_Witness ==
    /\ geo_last.mode # "none"
    /\ ~geo_last.result.some
    /\ ~geo_last.raised
    /\ geo_last.nq = 1
    /\ geo_cache # <<>>
    /\ LastKey \notin DOMAIN geo_cache

----------------------------------------------------------------------------
\* C12: geocode_strict_single and geocode_fallback_single never raise to the
\* caller: for every failure of a provider or of the boundary lookup the call
\* returns None.
C12_NeverRaises ==
    ~geo_last.raised

----------------------------------------------------------------------------
\* C13: in fallback mode, whenever Nominatim yields no accepted result, for
\* any reason, Photon is queried before the lookup returns not-found.
C13_SecondaryBeforeNotFound ==
    (/\ geo_last.mode = "fallback"
     /\ ~geo_last.raised
     /\ ~geo_last.result.some) => geo_last.pq = 1

----------------------------------------------------------------------------
\* C14: every returned coordinate passed the containment checks of the city
\* it was asked for: the locality tag of the accepted answer, when present,
\* equals the city case-insensitively, the point lies inside the city polygon
\* when there is one, and a coordinate answered from the cache was stored by a
\* lookup that checked it against this same city.
C14_ReturnedPassedCityChecks ==
    geo_last.result.some =>
        /\ (geo_last.ctag # <<>> => Lower(geo_last.ctag) = Lower(geo_last.city))
        /\ PointInPolygon(geo_last.result.val[1], geo_last.result.val[2],
                          GetCityPolygon(geo_last.city))
        /\ LastKey \in DOMAIN geo_checked
        /\ geo_checked[LastKey] = geo_last.city

----------------------------------------------------------------------------
(* geocode_rl, photon_geocode_rl, _city_geolocator: geocoding.py 18-23, 88-98 *)

\* the clock stops here
MaxTime == 2

\* concurrent callers of the geocoding functions
MaxCallers == 2

Callers == 1..MaxCallers

\* min_delay_seconds=1 (22, 23)
MinDelaySeconds == 1

\* geocode_rl and photon_geocode_rl (22-23)
Limiters == {"geocode_rl", "photon_geocode_rl"}

\* the services requests go out to: geolocator (18) and _city_geolocator (20)
\* are two clients of Nominatim, photon (19) is the client of Photon
Providers == {"nominatim", "photon"}

\* city names looked up
RlCities == {"c1", "c2"}

\* never: no call let through, no request sent
Never == -1

\* no two requests seen yet
NoGap == MaxTime + 1

CallerIdle == [pc |-> "idle", mode |-> "none", city |-> "none"]

RlInit ==
    /\ rl_now = 0
    /\ rl_last = [l \in Limiters |-> Never]
    /\ rl_sent = [p \in Providers |-> Never]
    /\ rl_mingap = [p \in Providers |-> NoGap]
    /\ rl_bcached = {}
    /\ rl_caller = [c \in Callers |-> CallerIdle]

\* a request goes out to provider p now
Send(p) ==
    /\ rl_mingap' = [rl_mingap EXCEPT ![p] =
                        IF rl_sent[p] = Never THEN @ ELSE Min(@, rl_now - rl_sent[p])]
    /\ rl_sent' = [rl_sent EXCEPT ![p] = rl_now]

\* RateLimiter(..., min_delay_seconds=1): a call goes through when the
\* limiter has let none through yet or min_delay_seconds have passed since
\* the last one; until then the caller sleeps
LetsThrough(l) ==
    \/ rl_last[l] = Never
    \/ rl_now - rl_last[l] >= MinDelaySeconds

\* time passes
RlTick ==
    /\ rl_now < MaxTime
    /\ rl_now' = rl_now + 1
    /\ UNCHANGED <<rl_last, rl_sent, rl_mingap, rl_bcached, rl_caller>>
    /\ UNCHANGED rl_others

\* a caller enters geocode_strict_single or geocode_fallback_single with a key
\* that is not in _cache_geo (121-125, 149-153)
RlBegin(c) ==
    /\ rl_caller[c].pc = "idle"
    /\ \E mode \in Modes, city \in RlCities :
          rl_caller' = [rl_caller EXCEPT ![c] =
                            [pc |-> "bbox", mode |-> mode, city |-> city]]
    /\ UNCHANGED <<rl_now, rl_last, rl_sent, rl_mingap, rl_bcached>>
    /\ UNCHANGED rl_others

\* get_city_bbox answered by its lru_cache (88, 126, 154)
RlBboxCached(c) ==
    /\ rl_caller[c].pc = "bbox"
    /\ rl_caller[c].city \in rl_bcached
    /\ rl_caller' = [rl_caller EXCEPT ![c].pc = "primary"]
    /\ UNCHANGED <<rl_now, rl_last, rl_sent, rl_mingap, rl_bcached>>
    /\ UNCHANGED rl_others

\* get_city_bbox calls _city_geolocator.geocode, which no RateLimiter wraps
\* (91-94); the answer is cached
RlBboxRequest(c) ==
    /\ rl_caller[c].pc = "bbox"
    /\ rl_caller[c].city \notin rl_bcached
    /\ Send("nominatim")
    /\ rl_bcached' = rl_bcached \cup {rl_caller[c].city}
    /\ rl_caller' = [rl_caller EXCEPT ![c].pc = "primary"]
    /\ UNCHANGED <<rl_now, rl_last>>
    /\ UNCHANGED rl_others

\* the same request raises: nothing is cached and the lookup ends
RlBboxRaises(c) ==
    /\ rl_caller[c].pc = "bbox"
    /\ rl_caller[c].city \notin rl_bcached
    /\ Send("nominatim")
    /\ rl_caller' = [rl_caller EXCEPT ![c] = CallerIdle]
    /\ UNCHANGED <<rl_now, rl_last, rl_bcached>>
    /\ UNCHANGED rl_others

\* geocode_rl(...) (133, 135, 157); a strict lookup ends here, a fallback
\* lookup ends here or goes on to Photon
RlPrimary(c) ==
    /\ rl_caller[c].pc = "primary"
    /\ LetsThrough("geocode_rl")
    /\ rl_last' = [rl_last EXCEPT !["geocode_rl"] = rl_now]
    /\ Send("nominatim")
    /\ \E next \in IF rl_caller[c].mode = "fallback"
                   THEN {"secondary", "idle"} ELSE {"idle"} :
          rl_caller' = [rl_caller EXCEPT ![c] =
                            IF next = "idle" THEN CallerIdle
                            ELSE [@ EXCEPT !.pc = "secondary"]]
    /\ UNCHANGED <<rl_now, rl_bcached>>
    /\ UNCHANGED rl_others

\* photon_geocode_rl(...) (172)
RlSecondary(c) ==
    /\ rl_caller[c].pc = "secondary"
    /\ LetsThrough("photon_geocode_rl")
    /\ rl_last' = [rl_last EXCEPT !["photon_geocode_rl"] = rl_now]
    /\ Send("photon")
    /\ rl_caller' = [rl_caller EXCEPT ![c] = CallerIdle]
    /\ UNCHANGED <<rl_now, rl_bcached>>
    /\ UNCHANGED rl_others

RlNext ==
    \/ RlTick
    \/ \E c \in Callers : RlBegin(c)
    \/ \E c \in Callers : RlBboxCached(c)
    \/ \E c \in Callers : RlBboxRequest(c)
    \/ \E c \in Callers : RlBboxRaises(c)
    \/ \E c \in Callers : RlPrimary(c)
    \/ \E c \in Callers : RlSecondary(c)

RlIdle ==
    /\ rl_now = 0
    /\ rl_last = <<>>
    /\ rl_sent = <<>>
    /\ rl_mingap = <<>>
    /\ rl_bcached = {}
    /\ rl_caller = <<>>

\* C15: any two consecutive requests to the same geocoding provider are at
\* least min_delay_seconds apart, in every sequence of strict, fallback and
\* boundary lookups and under every interleaving of concurrent callers.
C15_MinDelayPerProvider ==
    \A p \in Providers : rl_mingap[p] >= MinDelaySeconds

----------------------------------------------------------------------------
(* coletar_pois: data_fetch.py 21-81; coletar_pois_async: async_fetch.py 36-117 *)

\* the longest "elements" list Overpass answers with
MaxElems == 2

\* cidade
PoiCity == <<"c">>

\* coordinates of elements: two inside CityBox, one outside
PoiPoints == {<<1, 1>>, <<2, 2>>, <<5, 5>>}

\* the points inside the boundary polygon OSM holds for the city
CityPolygon == {<<1, 1>>}

\* What OSM holds for the city:
\*   bbox  how the lookup of get_city_bbox ends (BboxOutcomes)
\*   area  an administrative relation of that name exists, so that an area id
\*         can be derived from it
\*   poly  the relation has a geometry, so that a polygon can be built
PoiWorlds ==
    {w \in [bbox : BboxOutcomes, area : BOOLEAN, poly : BOOLEAN] : w.poly => w.area}

\* An element of the answer: el["tags"]["name"] (the empty string when absent),
\* whether a lat/lon pair is found on it (67-68), the pair, and
\* el["tags"]["addr:city"] (the empty string when absent).  Coordinates are
\* nonzero numbers.
PoiElements ==
    {[name |-> nm, located |-> TRUE, lat |-> p[1], lon |-> p[2], ctag |-> t]
        : nm \in {"Bar1", "Bar2"}, p \in PoiPoints, t \in {<<>>, <<"C">>, <<"X">>}}
    \cup
    {[name |-> "", located |-> TRUE, lat |-> 1, lon |-> 1, ctag |-> <<>>],
     [name |-> "Bar1", located |-> FALSE, lat |-> 0, lon |-> 0, ctag |-> <<>>]}

\* The answers of Overpass to the POI query:
\*   transport    the request raises, or raise_for_status does
\*   notjson      the body is not JSON, or not a JSON object
\*   badelements  a JSON object whose "elements" is not a list of objects
\*   elements     a JSON object with a list of elements (empty when absent)
PoiResponses ==
    {[kind |-> k, elements |-> <<>>] : k \in {"transport", "notjson", "badelements"}}
    \cup
    {[kind |-> "elements", elements |-> es]
        : es \in UNION {[1..k -> PoiElements] : k \in 0..MaxElems}}

\* the bbox test passes whatever the coordinate
InsideAlways(el, bbox) == TRUE

\* inside = not bbox or dentro_da_cidade(float(lat), float(lon), bbox)
\* (data_fetch.py 71)
Inside(el, bbox) ==
    ~bbox.some \/ DentroDaCidade(el.lat, el.lon, bbox.val)

\* {"name": name, "lat": float(lat), "lon": float(lon)}
Poi(el) == [name |-> el.name, lat |-> el.lat, lon |-> el.lon]

\* the names in pois_by_name
PoiNames(pois) == {pois[p].name : p \in DOMAIN pois}

\* data_fetch.py 64-81: the loop over the first k elements; a dict keeps its
\* keys in insertion order, so list(pois_by_name.values()) is the sequence of
\* first insertions
RECURSIVE CollectSync(_, _, _)
CollectSync(elements, k, bbox) ==
    IF k = 0 THEN <<>>
    ELSE LET pois == CollectSync(elements, k - 1, bbox)
             el == elements[k]
         IN  IF ~(el.name # "" /\ el.located) THEN pois              \* 69-70
             ELSE IF ~Inside(el, bbox) THEN pois                     \* 71-74
             ELSE IF el.name \in PoiNames(pois) THEN pois            \* 75
             ELSE Append(pois, Poi(el))                              \* 76-80

\* async_fetch.py 101-117: the loop over the first k elements
RECURSIVE CollectAsync(_, _, _, _, _)
CollectAsync(elements, k, cidade, bbox, poly) ==
    IF k = 0 THEN <<>>
    ELSE LET pois == CollectAsync(elements, k - 1, cidade, bbox, poly)
             el == elements[k]
         IN  IF ~(el.name # "" /\ el.located) THEN pois              \* 107-108
             ELSE IF el.ctag # <<>> /\ Lower(el.ctag) # Lower(cidade)
             THEN pois                                               \* 109-111
             ELSE IF poly.some /\ ~PointInPolygon(el.lat, el.lon, poly)
             THEN pois                                               \* 112-113
             ELSE IF /\ bbox.some
                     /\ ~poly.some
                     /\ ~DentroDaCidade(el.lat, el.lon, bbox.val)
             THEN pois                                               \* 114-115
             ELSE Append(pois, Poi(el))                              \* 116

PoiInit ==
    /\ poi_variant \in {"sync", "async"}
    /\ poi_world \in PoiWorlds
    /\ poi_resp \in PoiResponses
    /\ poi_bbox = NoneVal
    /\ poi_area = NoneVal
    /\ poi_poly = NoneVal
    /\ poi_scope = "none"
    /\ poi_ret = <<>>
    /\ poi_pc = "boundary"

\* get_city_bbox raises (data_fetch.py 23, async_fetch.py 38): no handler
PoiBoundaryRaises ==
    /\ poi_pc = "boundary"
    /\ poi_world.bbox = "raise"
    /\ poi_pc' = "raised"
    /\ UNCHANGED <<poi_variant, poi_world, poi_resp, poi_bbox, poi_area, poi_poly,
                   poi_scope, poi_ret>>
    /\ UNCHANGED poi_others

\* data_fetch.py 23: only the bbox is looked up
PoiBoundary ==
    /\ poi_pc = "boundary"
    /\ poi_variant = "sync"
    /\ poi_world.bbox # "raise"
    /\ poi_bbox' = IF poi_world.bbox = "bbox" THEN Some(CityBox) ELSE NoneVal
    /\ poi_pc' = "query"
    /\ UNCHANGED <<poi_variant, poi_world, poi_resp, poi_area, poi_poly,
                   poi_scope, poi_ret>>
    /\ UNCHANGED poi_others

\* async_fetch.py 38-40: bbox, area id and polygon are looked up
PoiBoundaryAsync ==
    /\ poi_pc = "boundary"
    /\ poi_variant = "async"
    /\ poi_world.bbox # "raise"
    /\ poi_bbox' = IF poi_world.bbox = "bbox" THEN Some(CityBox) ELSE NoneVal
    /\ poi_area' = GetCityAreaId(PoiCity)
    /\ poi_poly' = GetCityPolygon(PoiCity)
    /\ poi_pc' = "query"
    /\ UNCHANGED <<poi_variant, poi_world, poi_resp, poi_scope, poi_ret>>
    /\ UNCHANGED poi_others

\* data_fetch.py 24-52: the query is built over the bbox or over the name
PoiQuery ==
    /\ poi_pc = "query"
    /\ poi_variant = "sync"
    /\ poi_scope' = IF poi_bbox.some THEN "bbox" ELSE "name"
    /\ poi_pc' = "answer"
    /\ UNCHANGED <<poi_variant, poi_world, poi_resp, poi_bbox, poi_area, poi_poly,
                   poi_ret>>
    /\ UNCHANGED poi_others

\* async_fetch.py 41-91: over the area id, else the bbox, else the name
PoiQueryAsync ==
    /\ poi_pc = "query"
    /\ poi_variant = "async"
    /\ poi_scope' = IF poi_area.some THEN "area"
                    ELSE IF poi_bbox.some THEN "bbox"
                    ELSE "name"
    /\ poi_pc' = "answer"
    /\ UNCHANGED <<poi_variant, poi_world, poi_resp, poi_bbox, poi_area, poi_poly,
                   poi_ret>>
    /\ UNCHANGED poi_others

\* data_fetch.py 54-56, 60-62, async_fetch.py 94-99: return []
PoiAnswerFails ==
    /\ poi_pc = "answer"
    /\ poi_resp.kind \in {"transport", "notjson"}
    /\ poi_ret' = <<>>
    /\ poi_pc' = "done"
    /\ UNCHANGED <<poi_variant, poi_world, poi_resp, poi_bbox, poi_area, poi_poly,
                   poi_scope>>
    /\ UNCHANGED poi_others

\* the loop (data_fetch.py 65-68, async_fetch.py 102-106) stands outside the
\* try blocks: iterating or reading an "elements" value of another form raises
PoiLoopRaises ==
    /\ poi_pc = "answer"
    /\ poi_resp.kind = "badelements"
    /\ poi_pc' = "raised"
    /\ UNCHANGED <<poi_variant, poi_world, poi_resp, poi_bbox, poi_area, poi_poly,
                   poi_scope, poi_ret>>
    /\ UNCHANGED poi_others

\* data_fetch.py 64-81
PoiCollect ==
    /\ poi_pc = "answer"
    /\ poi_variant = "sync"
    /\ poi_resp.kind = "elements"
    /\ poi_ret' = CollectSync(poi_resp.elements, Len(poi_resp.elements), poi_bbox)
    /\ poi_pc' = "done"
    /\ UNCHANGED <<poi_variant, poi_world, poi_resp, poi_bbox, poi_area, poi_poly,
                   poi_scope>>
    /\ UNCHANGED poi_others

\* async_fetch.py 101-117
PoiCollectAsync ==
    /\ poi_pc = "answer"
    /\ poi_variant = "async"
    /\ poi_resp.kind = "elements"
    /\ poi_ret' = CollectAsync(poi_resp.elements, Len(poi_resp.elements), PoiCity,
                               poi_bbox, poi_poly)
    /\ poi_pc' = "done"
    /\ UNCHANGED <<poi_variant, poi_world, poi_resp, poi_bbox, poi_area, poi_poly,
                   poi_scope>>
    /\ UNCHANGED poi_others

PoiNext ==
    \/ PoiBoundaryRaises
    \/ PoiBoundary
    \/ PoiBoundaryAsync
    \/ PoiQuery
    \/ PoiQueryAsync
    \/ PoiAnswerFails
    \/ PoiLoopRaises
    \/ PoiCollect
    \/ PoiCollectAsync

PoiIdle ==
    /\ poi_variant = "idle"
    /\ poi_world = [bbox |-> "none", area |-> FALSE, poly |-> FALSE]
    /\ poi_resp = [kind |-> "idle", elements |-> <<>>]
    /\ poi_bbox = NoneVal
    /\ poi_area = NoneVal
    /\ poi_poly = NoneVal
    /\ poi_scope = "none"
    /\ poi_ret = <<>>
    /\ poi_pc = "idle"

----------------------------------------------------------------------------
\* the positions of the named, located elements called nm that the bbox of the
\* call, when there is one, contains
PassingAs(nm) ==
    {i \in DOMAIN poi_resp.elements :
        /\ poi_resp.elements[i].name = nm
        /\ poi_resp.elements[i].located
        /\ (poi_bbox.some =>
                DentroDaCidade(poi_resp.elements[i].lat, poi_resp.elements[i].lon,
                               poi_bbox.val))}

\* the least position of a nonempty set of positions
First(S) == CHOOSE i \in S : \A j \in S : i <= j

----------------------------------------------------------------------------
\* the element carries an addr:city tag that differs from the requested city
\* when both are lower-cased
TagDisagrees(el) ==
    el.ctag # <<>> /\ Lower(el.ctag) # Lower(PoiCity)

\* C17: the collector discards every element whose addr:city tag differs from
\* the requested city case-insensitively, even inside the boundary: every
\* returned POI is the name and coordinate of an element without such a tag.
C17_ForeignCityTagDiscarded ==
    (poi_pc = "done" /\ poi_resp.kind = "elements") =>
        \A p \in DOMAIN poi_ret :
            \E i \in DOMAIN poi_resp.elements :
                /\ poi_resp.elements[i].name # ""
                /\ poi_resp.elements[i].located
                /\ Poi(poi_resp.elements[i]) = poi_ret[p]
                /\ ~TagDisagrees(poi_resp.elements[i])

\* C18: when the city has a polygon, the collector keeps an element only if
\* its coordinate is inside the polygon.
C18_PolygonContainment ==
    (poi_pc = "done" /\ poi_resp.kind = "elements" /\ poi_world.poly) =>
        \A p \in DOMAIN poi_ret : <<poi_ret[p].lat, poi_ret[p].lon>> \in CityPolygon

\* C19: the query scope is the area id whenever the city's area id is
\* resolvable, otherwise the bounding box whenever the bbox is resolvable, and
\* the name match only when neither is.
C19_ScopePreference ==
    poi_scope # "none" =>
        poi_scope = IF poi_world.area THEN "area"
                    ELSE IF poi_world.bbox = "bbox" THEN "bbox"
                    ELSE "name"

\* C20: the collector never raises to its caller, whatever fails upstream.
C20_NeverRaises ==
    poi_pc # "raised"

\* C32: for the same city, the same resolved boundary and the same upstream
\* element list, coletar_pois and coletar_pois_async return the same
\* sequence of POIs.
C32_CollectorsAgree ==
    (poi_pc = "done" /\ poi_resp.kind = "elements") =>
        /\ poi_ret = CollectSync(poi_resp.elements, Len(poi_resp.elements),
                                 poi_bbox)
        /\ poi_ret = CollectAsync(poi_resp.elements, Len(poi_resp.elements),
                                  PoiCity, poi_bbox, GetCityPolygon(PoiCity))

----------------------------------------------------------------------------

(***************************************************************************)
(* get_city_bbox behind functools.lru_cache(maxsize=64), geocoding.py      *)
(* 88-98.  The cache keeps at most LruMaxSize city names; a hit moves the  *)
(* name to the most recently used end, a miss runs the function and, when  *)
(* it returns, stores the value and evicts the least recently used name if *)
(* the cache was full.  A call that raises stores nothing.  City 0 is the  *)
(* city under observation and may be resolved at any time; the other       *)
(* names 1..LruMaxSize are introduced one after the other, and the newest  *)
(* of them may be resolved again.                                          *)
(***************************************************************************)
LruMaxSize == 64

WatchedCity == 0

BdCities == 0..LruMaxSize

BdCached(lru) == {lru[k].city : k \in 1..Len(lru)}

BdValue(lru, city) ==
    (CHOOSE k \in 1..Len(lru) : lru[k].city = city)

\* lru_cache on a hit: the entry becomes the most recently used one.
LruTouch(lru, city) ==
    LET k == BdValue(lru, city)
    IN  SubSeq(lru, 1, k - 1) \o SubSeq(lru, k + 1, Len(lru)) \o <<lru[k]>>

\* lru_cache on a miss that returned: store, evicting the oldest when full.
LruStore(lru, city, val) ==
    IF Len(lru) >= LruMaxSize
    THEN Append(Tail(lru), [city |-> city, val |-> val])
    ELSE Append(lru, [city |-> city, val |-> val])

\* The names the environment may resolve next.
BdCallable ==
    {WatchedCity} \cup ({bd_fresh, bd_fresh + 1} \cap (1..LruMaxSize))

\* What the upstream answers for a name: the watched city has every
\* outcome, the other names are found.
BdUpstream(city) == IF city = WatchedCity THEN BboxOutcomes ELSE {"bbox"}

BdNoCall == [city |-> WatchedCity, val |-> "idle", requests |-> 0,
             raised |-> FALSE, failed |-> FALSE, known |-> FALSE]

BdInit ==
    /\ bd_lru = <<>>
    /\ bd_fresh = 0
    /\ bd_resolved = {}
    /\ bd_last = BdNoCall

\* lru_cache finds the name: no call of the function (line 88).
BdHit(city) ==
    /\ city \in BdCallable
    /\ city \in BdCached(bd_lru)
    /\ bd_lru' = LruTouch(bd_lru, city)
    /\ bd_last' = [city |-> city, val |-> bd_lru[BdValue(bd_lru, city)].val,
                   requests |-> 0, raised |-> FALSE, failed |-> FALSE,
                   known |-> city \in bd_resolved]
    /\ UNCHANGED <<bd_fresh, bd_resolved>>
    /\ UNCHANGED bd_others

\* A miss: the geocoder is asked (91-94) and answers; the value, a box or
\* None (95-98), is stored.
BdMiss(city, up) ==
    /\ city \in BdCallable
    /\ city \notin BdCached(bd_lru)
    /\ up \in BdUpstream(city) \ {"raise"}
    /\ bd_lru' = LruStore(bd_lru, city, up)
    /\ bd_fresh' = IF city = WatchedCity THEN bd_fresh ELSE city
    /\ bd_resolved' = bd_resolved \cup {city}
    /\ bd_last' = [city |-> city, val |-> up, requests |-> 1,
                   raised |-> FALSE, failed |-> up = "none",
                   known |-> city \in bd_resolved]
    /\ UNCHANGED bd_others

\* A miss whose request fails: nothing catches the exception (91-94), so
\* it leaves get_city_bbox and nothing is stored.
BdRaise(city) ==
    /\ city \in BdCallable
    /\ city \notin BdCached(bd_lru)
    /\ "raise" \in BdUpstream(city)
    /\ bd_last' = [city |-> city, val |-> "raise", requests |-> 1,
                   raised |-> TRUE, failed |-> TRUE,
                   known |-> city \in bd_resolved]
    /\ UNCHANGED <<bd_lru, bd_fresh, bd_resolved>>
    /\ UNCHANGED bd_others

BdNext ==
    \/ \E city \in BdCities : BdHit(city)
    \/ \E city \in BdCities, up \in BboxOutcomes : BdMiss(city, up)
    \/ \E city \in BdCities : BdRaise(city)

BdIdle ==
    /\ bd_lru = <<>>
    /\ bd_fresh = 0
    /\ bd_resolved = {}
    /\ bd_last = BdNoCall

\* C21: a boundary lookup that fails (timeout, provider error, malformed
\* payload) yields an absent value and does not raise.
C21_FailedLookupIsAbsent ==
    bd_last.failed => (~bd_last.raised /\ bd_last.val = "none")

\* C22: once a city has been resolved, a later resolution of the same name
\* issues no upstream request, whatever other names were resolved between.
C22_ResolvedCityNeverAskedAgain ==
    bd_last.known => bd_last.requests = 0

(***************************************************************************)
(* The containment decisions on one coordinate: dentro_da_cidade           *)
(* (geocoding.py 101-118), the checks of the geocoders on a provider's     *)
(* answer (136-143, with point_in_polygon 78-85) and the checks of         *)
(* coletar_pois_async on an element (async_fetch.py 112-115).  The         *)
(* coordinate, the bounding box and the polygon are the inputs; a polygon  *)
(* is the set of the points it contains.                                   *)
(***************************************************************************)
MaxCoord == 3

Coords == 0..MaxCoord

\* bounding boxes (south, north, west, east) with south <= north, west <= east
Boxes ==
    {b \in Coords \X Coords \X Coords \X Coords : b[1] <= b[2] /\ b[3] <= b[4]}

CtPolygon == {<<1, 1>>, <<1, 2>>}

\* a provider's answer at the coordinate, without a locality tag
CtLocation(lat, lon) == [kind |-> "loc", lat |-> lat, lon |-> lon, ctag |-> <<>>]

\* an Overpass element at the coordinate, named and without addr:city
CtElement(lat, lon) ==
    [name |-> "Bar1", located |-> TRUE, lat |-> lat, lon |-> lon, ctag |-> <<>>]

\* geocoding.py 136-143: does the geocoder keep the answer
GeocoderKeeps(lat, lon, bbox, poly) ==
    CheckLocation(CtLocation(lat, lon), <<"c">>, bbox, poly) = "accept"

\* async_fetch.py 109-116: does the collector keep the element
CollectorKeeps(lat, lon, bbox, poly) ==
    CollectAsync(<<CtElement(lat, lon)>>, 1, <<"c">>, bbox, poly) # <<>>

CtNoCall == [kind |-> "idle", val |-> FALSE]

CtInit ==
    /\ ct_lat \in Coords
    /\ ct_lon \in Coords
    /\ ct_bbox \in {NoneVal} \cup {Some(b) : b \in Boxes}
    /\ ct_poly \in {NoneVal, Some(CtPolygon)}
    /\ ct_ret = CtNoCall

\* dentro_da_cidade(lat, lon, bbox)
CtDentro ==
    /\ ct_bbox.some
    /\ ct_ret' = [kind |-> "dentro",
                  val |-> DentroDaCidade(ct_lat, ct_lon, ct_bbox.val)]
    /\ UNCHANGED <<ct_lat, ct_lon, ct_bbox, ct_poly>>
    /\ UNCHANGED ct_others

\* the decision of geocode_strict_single / geocode_fallback_single
CtGeocoder ==
    /\ ct_ret' = [kind |-> "geocoder",
                  val |-> GeocoderKeeps(ct_lat, ct_lon, ct_bbox, ct_poly)]
    /\ UNCHANGED <<ct_lat, ct_lon, ct_bbox, ct_poly>>
    /\ UNCHANGED ct_others

\* the decision of coletar_pois_async
CtCollector ==
    /\ ct_ret' = [kind |-> "collector",
                  val |-> CollectorKeeps(ct_lat, ct_lon, ct_bbox, ct_poly)]
    /\ UNCHANGED <<ct_lat, ct_lon, ct_bbox, ct_poly>>
    /\ UNCHANGED ct_others

CtNext == CtDentro \/ CtGeocoder \/ CtCollector

CtIdle ==
    /\ ct_lat = 0
    /\ ct_lon = 0
    /\ ct_bbox = NoneVal
    /\ ct_poly = NoneVal
    /\ ct_ret = CtNoCall

\* C23: dentro_da_cidade(lat, lon, (south, north, west, east)) is true exactly
\* when south <= lat <= north and west <= lon <= east, the limits included.
C23_InclusiveRange ==
    ct_ret.kind = "dentro" =>
        (ct_ret.val <=> (/\ ct_lat \in ct_bbox.val[1]..ct_bbox.val[2]
                         /\ ct_lon \in ct_bbox.val[3]..ct_bbox.val[4]))

\* a coordinate on the south-west corner of the box is inside
C23_Witness ==
    /\ ct_ret.kind = "dentro"
    /\ ct_ret.val
    /\ ct_lat = ct_bbox.val[1]
    /\ ct_lon = ct_bbox.val[3]
    /\ ct_bbox.val[1] < ct_bbox.val[2]

\* what the coordinate's containment is when the polygon has the last word
PolygonFirst ==
    IF ct_poly.some THEN <<ct_lat, ct_lon>> \in ct_poly.val
    ELSE IF ct_bbox.some
         THEN /\ ct_lat \in ct_bbox.val[1]..ct_bbox.val[2]
              /\ ct_lon \in ct_bbox.val[3]..ct_bbox.val[4]
         ELSE TRUE

MaxDim == 3

MaxAlt == 2

MaxBase == 1

EpWeights == {-1, 0, 1, 2}

Idx(n) == 0..(n - 1)

\* dist_matrix: off the diagonal row i costs b + i, the diagonal holds d
BaseMatrix(n, b, d) ==
    [i \in Idx(n) |-> [j \in Idx(n) |-> IF i = j THEN d ELSE b + i]]

\* gain = alts[i] - alts[j]
GainDownhill(alts, i, j) == alts[i] - alts[j]

\* gain = alts[j] - alts[i] (77)
Gain(alts, i, j) == alts[j] - alts[i]

\* penal = list(dist_matrix): the same row lists in a new outer list
CopyRowsShallow(heap, dist) == [heap |-> heap, penal |-> dist]

\* penal = [row[:] for row in dist_matrix] (72): every row is a new list
CopyRows(heap, dist) ==
    [heap  |-> heap \o [k \in 1..Len(dist) |-> heap[dist[k]]],
     penal |-> [k \in 1..Len(dist) |-> Len(heap) + k]]

\* the values of a list of rows
Values(heap, rows) == [i \in Idx(Len(rows)) |-> heap[rows[i + 1]]]

EpInit ==
    /\ ep_n \in 1..MaxDim
    /\ \E b \in 0..MaxBase, d \in 0..1 : ep_m0 = BaseMatrix(ep_n, b, d)
    /\ ep_alts \in [Idx(ep_n) -> 0..MaxAlt]
    /\ ep_weight \in EpWeights
    /\ ep_heap = [k \in 1..ep_n |-> ep_m0[k - 1]]
    /\ ep_dist = [k \in 1..ep_n |-> k]
    /\ ep_penal = <<>>
    /\ ep_i = 0
    /\ ep_j = 0
    /\ ep_ret = NoneVal
    /\ ep_pc = "call"

\* 67-68: if weight <= 0: return dist_matrix
EpReturnInput ==
    /\ ep_pc = "call"
    /\ ep_weight <= 0
    /\ ep_ret' = Some([obj |-> "dist_matrix", rows |-> ep_dist])
    /\ ep_pc' = "done"
    /\ UNCHANGED <<ep_n, ep_m0, ep_alts, ep_weight, ep_heap, ep_dist, ep_penal,
                   ep_i, ep_j>>
    /\ UNCHANGED ep_others

\* 70-72: the copy of the rows
EpCopy ==
    /\ ep_pc = "call"
    /\ ep_weight > 0
    /\ LET c == CopyRows(ep_heap, ep_dist)
       IN  /\ ep_heap' = c.heap
           /\ ep_penal' = c.penal
    /\ ep_i' = 0
    /\ ep_j' = 0
    /\ ep_pc' = "loop"
    /\ UNCHANGED <<ep_n, ep_m0, ep_alts, ep_weight, ep_dist, ep_ret>>
    /\ UNCHANGED ep_others

\* the next (i, j) of the two nested range(n) loops (73-74)
EpAdvance ==
    /\ ep_i' = IF ep_j + 1 < ep_n THEN ep_i ELSE ep_i + 1
    /\ ep_j' = IF ep_j + 1 < ep_n THEN ep_j + 1 ELSE 0

\* 75-76: if i == j: continue
EpSkipDiagonal ==
    /\ ep_pc = "loop"
    /\ ep_i < ep_n
    /\ ep_i = ep_j
    /\ EpAdvance
    /\ UNCHANGED <<ep_n, ep_m0, ep_alts, ep_weight, ep_heap, ep_dist, ep_penal,
                   ep_ret, ep_pc>>
    /\ UNCHANGED ep_others

\* 77-79: gain > 0, penal[i][j] += gain * weight
EpAddGain ==
    /\ ep_pc = "loop"
    /\ ep_i < ep_n
    /\ ep_i # ep_j
    /\ Gain(ep_alts, ep_i, ep_j) > 0
    /\ ep_heap' = [ep_heap EXCEPT ![ep_penal[ep_i + 1]][ep_j] =
                        @ + Gain(ep_alts, ep_i, ep_j) * ep_weight]
    /\ EpAdvance
    /\ UNCHANGED <<ep_n, ep_m0, ep_alts, ep_weight, ep_dist, ep_penal, ep_ret,
                   ep_pc>>
    /\ UNCHANGED ep_others

\* 77-78: gain <= 0, the entry stays
EpNoGain ==
    /\ ep_pc = "loop"
    /\ ep_i < ep_n
    /\ ep_i # ep_j
    /\ Gain(ep_alts, ep_i, ep_j) <= 0
    /\ EpAdvance
    /\ UNCHANGED <<ep_n, ep_m0, ep_alts, ep_weight, ep_heap, ep_dist, ep_penal,
                   ep_ret, ep_pc>>
    /\ UNCHANGED ep_others

\* 80: return penal
EpReturn ==
    /\ ep_pc = "loop"
    /\ ep_i = ep_n
    /\ ep_ret' = Some([obj |-> "penal", rows |-> ep_penal])
    /\ ep_pc' = "done"
    /\ UNCHANGED <<ep_n, ep_m0, ep_alts, ep_weight, ep_heap, ep_dist, ep_penal,
                   ep_i, ep_j>>
    /\ UNCHANGED ep_others

EpNext ==
    \/ EpReturnInput
    \/ EpCopy
    \/ EpSkipDiagonal
    \/ EpAddGain
    \/ EpNoGain
    \/ EpReturn

EpIdle ==
    /\ ep_n = 0
    /\ ep_m0 = <<>>
    /\ ep_alts = <<>>
    /\ ep_weight = 0
    /\ ep_heap = <<>>
    /\ ep_dist = <<>>
    /\ ep_penal = <<>>
    /\ ep_i = 0
    /\ ep_j = 0
    /\ ep_ret = NoneVal
    /\ ep_pc = "idle"

\* the climb from i to j, never negative
Ascent(i, j) ==
    IF ep_alts[j] > ep_alts[i] THEN ep_alts[j] - ep_alts[i] ELSE 0

\* the values of the returned matrix
Returned == Values(ep_heap, ep_ret.val.rows)

\* C25: for weight > 0 the result is m[i][j] + weight * max(0, alt[j] - alt[i])
\* off the diagonal and m[i][i] on it, so no entry is below its base cost
\* and of two entries with the same base cost the one with the larger climb
\* costs strictly more; for weight <= 0 the result is the input matrix itself.
C25_MatchesReference ==
    ep_pc = "done" =>
        IF ep_weight > 0
        THEN /\ \A i \in Idx(ep_n), j \in Idx(ep_n) :
                    /\ Returned[i][j] =
                         IF i = j THEN ep_m0[i][i]
                         ELSE ep_m0[i][j] + ep_weight * Ascent(i, j)
                    /\ Returned[i][j] >= ep_m0[i][j]
             /\ \A i \in Idx(ep_n), j \in Idx(ep_n), k \in Idx(ep_n) :
                    (/\ i # j /\ i # k
                     /\ ep_m0[i][j] = ep_m0[i][k]
                     /\ Ascent(i, j) > Ascent(i, k))
                        => Returned[i][j] > Returned[i][k]
        ELSE /\ ep_ret.val.obj = "dist_matrix"
             /\ Returned = ep_m0

\* a penalised climb next to a descent of the same base cost
C25_Witness ==
    /\ ep_pc = "done"
    /\ ep_weight > 0
    /\ \E i \in Idx(ep_n), j \in Idx(ep_n), k \in Idx(ep_n) :
            /\ i # j /\ i # k
            /\ ep_alts[j] > ep_alts[i]
            /\ ep_alts[k] < ep_alts[i]
            /\ Returned[i][j] > Returned[i][k]

\* C26: the input matrix is never mutated, and for weight > 0 the returned
\* matrix shares no row with it.
C26_InputUntouched ==
    /\ ep_pc # "idle" =>
            /\ ep_dist = [k \in 1..ep_n |-> k]
            /\ Values(ep_heap, ep_dist) = ep_m0
    /\ (ep_pc = "done" /\ ep_weight > 0) =>
            Range(ep_ret.val.rows) \cap Range(ep_dist) = {}

\* a returned matrix that differs from the input while the input is as it was
C26_Witness ==
    /\ ep_pc = "done"
    /\ ep_weight > 0
    /\ Returned # ep_m0
    /\ Values(ep_heap, ep_dist) = ep_m0

(***************************************************************************)
(* run_ui.on_compute from the click to the first request after the size    *)
(* check (ui.py 43-85).  Each `geocode_strict_single(x, city) or           *)
(* geocode_fallback_single(x, city)` is one lookup, which is answered from *)
(* _cache_geo or goes to the network and finds a coordinate, finds none or *)
(* raises.  rq_net counts the lookups and fetches that went to the         *)
(* network.                                                                *)
(***************************************************************************)
MaxSel == 2

\* the two address fields after strip(): empty or not
Addresses == {"", "Rua A"}

\* how a lookup ends
Lookups == {"cached", "found", "notfound", "raise"}

\* does the lookup send a request
OnNetwork(o) == o # "cached"

RqInit ==
    /\ rq_start \in Addresses
    /\ rq_end \in Addresses
    /\ rq_same \in BOOLEAN
    /\ rq_npois \in 0..MaxSel
    /\ rq_extras \in 0..MaxSel
    /\ rq_k = 0
    /\ rq_coords = 0
    /\ rq_net = 0
    /\ rq_reason = "none"
    /\ rq_pc = "start"

\* 51-54: pt0; a missing start point ends the request with its message
RqGeocodeStart(o) ==
    /\ rq_pc = "start"
    /\ rq_net' = IF OnNetwork(o) THEN rq_net + 1 ELSE rq_net
    /\ rq_pc' = CASE o = "raise" -> "raised"
                  [] o = "notfound" -> "rejected"
                  [] OTHER -> "end"
    /\ rq_reason' = IF o = "notfound" THEN "Falha geocode partida" ELSE rq_reason
    /\ UNCHANGED <<rq_start, rq_end, rq_same, rq_npois, rq_extras, rq_k, rq_coords>>
    /\ UNCHANGED rq_others

\* 55 with same_cb ticked: pt1 = pt0, no lookup
RqSameEnd ==
    /\ rq_pc = "end"
    /\ rq_same
    /\ rq_pc' = "pois"
    /\ UNCHANGED <<rq_start, rq_end, rq_same, rq_npois, rq_extras, rq_k, rq_coords,
                   rq_net, rq_reason>>
    /\ UNCHANGED rq_others

\* 55-58: pt1; a missing end point ends the request with its message
RqGeocodeEnd(o) ==
    /\ rq_pc = "end"
    /\ ~rq_same
    /\ rq_net' = IF OnNetwork(o) THEN rq_net + 1 ELSE rq_net
    /\ rq_pc' = CASE o = "raise" -> "raised"
                  [] o = "notfound" -> "rejected"
                  [] OTHER -> "pois"
    /\ rq_reason' = IF o = "notfound" THEN "Falha geocode destino" ELSE rq_reason
    /\ UNCHANGED <<rq_start, rq_end, rq_same, rq_npois, rq_extras, rq_k, rq_coords>>
    /\ UNCHANGED rq_others

\* 60-67: coords = [pt0] and the ticked POIs
RqPois ==
    /\ rq_pc = "pois"
    /\ rq_coords' = 1 + rq_npois
    /\ rq_pc' = "extras"
    /\ UNCHANGED <<rq_start, rq_end, rq_same, rq_npois, rq_extras, rq_k, rq_net,
                   rq_reason>>
    /\ UNCHANGED rq_others

\* 70-74: the next extra address; it is kept when a coordinate is found
RqGeocodeExtra(o) ==
    /\ rq_pc = "extras"
    /\ rq_k < rq_extras
    /\ rq_k' = rq_k + 1
    /\ rq_net' = IF OnNetwork(o) THEN rq_net + 1 ELSE rq_net
    /\ rq_coords' = IF o \in {"cached", "found"} THEN rq_coords + 1 ELSE rq_coords
    /\ rq_pc' = IF o = "raise" THEN "raised" ELSE "extras"
    /\ UNCHANGED <<rq_start, rq_end, rq_same, rq_npois, rq_extras, rq_reason>>
    /\ UNCHANGED rq_others

\* 76-77: coords.append(pt1)
RqAppendEnd ==
    /\ rq_pc = "extras"
    /\ rq_k = rq_extras
    /\ rq_coords' = rq_coords + 1
    /\ rq_pc' = "check"
    /\ UNCHANGED <<rq_start, rq_end, rq_same, rq_npois, rq_extras, rq_k, rq_net,
                   rq_reason>>
    /\ UNCHANGED rq_others

\* 79-81: fewer than 3 points
RqReject ==
    /\ rq_pc = "check"
    /\ rq_coords < 3
    /\ rq_reason' = "Selecione ao menos um POI ou extra."
    /\ rq_pc' = "rejected"
    /\ UNCHANGED <<rq_start, rq_end, rq_same, rq_npois, rq_extras, rq_k, rq_coords,
                   rq_net>>
    /\ UNCHANGED rq_others

\* 83-84: the altitudes are requested
RqAltitudes ==
    /\ rq_pc = "check"
    /\ rq_coords >= 3
    /\ rq_net' = rq_net + 1
    /\ rq_pc' = "altitudes"
    /\ UNCHANGED <<rq_start, rq_end, rq_same, rq_npois, rq_extras, rq_k, rq_coords,
                   rq_reason>>
    /\ UNCHANGED rq_others

RqNext ==
    \/ \E o \in Lookups : RqGeocodeStart(o)
    \/ RqSameEnd
    \/ \E o \in Lookups : RqGeocodeEnd(o)
    \/ RqPois
    \/ \E o \in Lookups : RqGeocodeExtra(o)
    \/ RqAppendEnd
    \/ RqReject
    \/ RqAltitudes

RqIdle ==
    /\ rq_start = ""
    /\ rq_end = ""
    /\ rq_same = FALSE
    /\ rq_npois = 0
    /\ rq_extras = 0
    /\ rq_k = 0
    /\ rq_coords = 0
    /\ rq_net = 0
    /\ rq_reason = "none"
    /\ rq_pc = "idle"

\* an empty start address, or an empty end address that is used
EmptyAddress == rq_start = "" \/ (~rq_same /\ rq_end = "")

\* C28: a request with fewer than 3 usable points or with an empty start or
\* end address is rejected with its reason before any network call.
C28_RejectedBeforeNetwork ==
    /\ rq_pc = "rejected" => rq_net = 0
    /\ (rq_pc # "idle" /\ EmptyAddress) => (rq_net = 0 /\ rq_pc # "altitudes")

(***************************************************************************)
(* Concurrent calls of geocode_strict_single and geocode_fallback_single   *)
(* on the shared dict _cache_geo (geocoding.py 123-125, 143, 151-153, 168, *)
(* 180).  A caller tests the key, reads it on a hit, and on a miss looks   *)
(* the address up and stores the coordinate with setdefault; the callers'  *)
(* steps interleave freely.  One dict operation is one step: `key in`,     *)
(* the subscript and setdefault each run to completion on a str key.  The  *)
(* lookup of a call (boundary, provider requests and checks) is one step   *)
(* that ends with a coordinate to store, with nothing, or with an          *)
(* exception.                                                              *)
(***************************************************************************)

\* the two (address, city) pairs the callers look up; they build the same key
RaceInputs ==
    {<<<<"a", "|", "b">>, <<"c">>>>, <<<<"a">>, <<"b", "|", "c">>>>}

\* coordinates a provider may answer for them; both pass the checks
RaceCoords == {<<1, 1>>, <<2, 2>>}

\* how the lookup of a call ends (126-146, 154-183)
RaceLookups ==
    {[kind |-> k, val |-> <<>>] : k \in {"nothing", "raise"}}
    \cup {[kind |-> "loc", val |-> v] : v \in RaceCoords}

RacerIdle ==
    [pc |-> "idle", key |-> <<>>, val |-> NoneVal, ret |-> NoneVal,
     present |-> FALSE]

\* history: the value a key held when it was first seen in the dict
FirstStored(first, cache) ==
    [k \in DOMAIN first \cup DOMAIN cache |->
        IF k \in DOMAIN first THEN first[k] ELSE cache[k]]

CcInit ==
    /\ cc_cache = <<>>
    /\ cc_first = <<>>
    /\ cc_caller = [c \in Callers |-> RacerIdle]

\* 123, 151: a call begins and builds its key
CcBegin(c, mode, in) ==
    /\ cc_caller[c].pc = "idle"
    /\ cc_caller' = [cc_caller EXCEPT ![c] =
            [RacerIdle EXCEPT !.pc = "test", !.key = Key(mode, in[1], in[2])]]
    /\ UNCHANGED <<cc_cache, cc_first>>
    /\ UNCHANGED cc_others

\* 124, 152: if key in _cache_geo
CcTest(c) ==
    /\ cc_caller[c].pc = "test"
    /\ cc_caller' = [cc_caller EXCEPT ![c].pc =
            IF cc_caller[c].key \in DOMAIN cc_cache THEN "read" ELSE "lookup"]
    /\ UNCHANGED <<cc_cache, cc_first>>
    /\ UNCHANGED cc_others

\* 125, 153: return _cache_geo[key]; no statement of the module removes a
\* key, so the key found at 124 is still there
CcRead(c) ==
    /\ cc_caller[c].pc = "read"
    /\ cc_caller[c].key \in DOMAIN cc_cache
    /\ cc_caller' = [cc_caller EXCEPT
            ![c].pc = "done",
            ![c].ret = Some(cc_cache[cc_caller[c].key]),
            ![c].present = TRUE]
    /\ UNCHANGED <<cc_cache, cc_first>>
    /\ UNCHANGED cc_others

\* 126-142, 154-179: the lookup; without an accepted coordinate the call
\* returns None (140, 142, 146, 183) or raises
CcLookup(c, o) ==
    /\ cc_caller[c].pc = "lookup"
    /\ cc_caller' = [cc_caller EXCEPT ![c] =
            CASE o.kind = "raise" -> [@ EXCEPT !.pc = "raised"]
              [] o.kind = "nothing" ->
                    [@ EXCEPT !.pc = "done", !.ret = NoneVal,
                              !.present = cc_caller[c].key \in DOMAIN cc_cache]
              [] OTHER -> [@ EXCEPT !.pc = "store", !.val = Some(o.val)]]
    /\ UNCHANGED <<cc_cache, cc_first>>
    /\ UNCHANGED cc_others

\* 143, 168, 180: return _cache_geo.setdefault(key, (latitude, longitude))
CcStore(c) ==
    /\ cc_caller[c].pc = "store"
    /\ LET key == cc_caller[c].key
           value == cc_caller[c].val.val
       IN  /\ cc_cache' = SetDefault(cc_cache, key, value)
           /\ cc_first' = FirstStored(cc_first, cc_cache')
           /\ cc_caller' = [cc_caller EXCEPT
                    ![c].pc = "done",
                    ![c].ret = Some(SetDefaultValue(cc_cache, key, value)),
                    ![c].present = TRUE]
    /\ UNCHANGED cc_others

\* the caller has its answer and may call again
CcRelease(c) ==
    /\ cc_caller[c].pc \in {"done", "raised"}
    /\ cc_caller' = [cc_caller EXCEPT ![c] = RacerIdle]
    /\ UNCHANGED <<cc_cache, cc_first>>
    /\ UNCHANGED cc_others

CcNext ==
    \/ \E c \in Callers, mode \in Modes, in \in RaceInputs : CcBegin(c, mode, in)
    \/ \E c \in Callers : CcTest(c)
    \/ \E c \in Callers : CcRead(c)
    \/ \E c \in Callers, o \in RaceLookups : CcLookup(c, o)
    \/ \E c \in Callers : CcStore(c)
    \/ \E c \in Callers : CcRelease(c)

CcIdle ==
    /\ cc_cache = <<>>
    /\ cc_first = <<>>
    /\ cc_caller = <<>>

\* every key ever stored is still present with the value stored first
AppendOnly ==
    \A k \in DOMAIN cc_first :
        k \in DOMAIN cc_cache /\ cc_cache[k] = cc_first[k]

\* C31 as stated: the cache is append-only under every interleaving, and
\* every caller that returns while its key is present returns the
\* coordinate stored first.
C31_AllRacersGetStored ==
    /\ AppendOnly
    /\ \A c \in Callers :
            (cc_caller[c].pc = "done" /\ cc_caller[c].present) =>
                cc_caller[c].ret = Some(cc_first[cc_caller[c].key])

\* C31, amended: the cache is append-only under every interleaving, and
\* every caller that returns a coordinate returns the one stored first under
\* its key; a caller whose own lookup found nothing returns not-found.
C31_AppendOnlyFirstWins ==
    /\ AppendOnly
    /\ \A c \in Callers :
            cc_caller[c].pc = "done" =>
                IF cc_caller[c].ret.some
                THEN /\ cc_caller[c].key \in DOMAIN cc_first
                     /\ cc_caller[c].ret.val = cc_first[cc_caller[c].key]
                ELSE ~cc_caller[c].val.some

\* two callers missed on the same key and found different coordinates; both
\* return the one stored first
C31_Witness ==
    \E c \in Callers, d \in Callers :
        /\ c # d
        /\ cc_caller[c].pc = "done" /\ cc_caller[d].pc = "done"
        /\ cc_caller[c].key = cc_caller[d].key
        /\ cc_caller[c].val.some /\ cc_caller[d].val.some
        /\ cc_caller[c].val # cc_caller[d].val
        /\ cc_caller[c].ret = cc_caller[c].val
        /\ cc_caller[d].ret = cc_caller[c].val
(* Specifications *)

InitChristofides == ChInit /\ AlIdle /\ OsIdle /\ OcIdle /\ GeoIdle /\ RlIdle /\ PoiIdle /\ BdIdle /\ CtIdle /\ EpIdle /\ RqIdle /\ CcIdle

SpecChristofides == InitChristofides /\ [][ChNext]_vars

\* the function body runs on: a step that can be taken is taken
SpecChristofidesFair == InitChristofides /\ [][ChNext]_vars /\ WF_vars(ChNext)

InitAltitude == AlInit /\ ChIdle /\ OsIdle /\ OcIdle /\ GeoIdle /\ RlIdle /\ PoiIdle /\ BdIdle /\ CtIdle /\ EpIdle /\ RqIdle /\ CcIdle

SpecAltitude == InitAltitude /\ [][AlNext]_vars

InitOsrm == OsInit /\ ChIdle /\ AlIdle /\ OcIdle /\ GeoIdle /\ RlIdle /\ PoiIdle /\ BdIdle /\ CtIdle /\ EpIdle /\ RqIdle /\ CcIdle

SpecOsrm == InitOsrm /\ [][OsNext]_vars

InitOnCompute == OcInit /\ ChIdle /\ AlIdle /\ OsIdle /\ GeoIdle /\ RlIdle /\ PoiIdle /\ BdIdle /\ CtIdle /\ EpIdle /\ RqIdle /\ CcIdle

SpecOnCompute == InitOnCompute /\ [][OcNext]_vars

InitGeocode == GeoInit /\ ChIdle /\ AlIdle /\ OsIdle /\ OcIdle /\ RlIdle /\ PoiIdle /\ BdIdle /\ CtIdle /\ EpIdle /\ RqIdle /\ CcIdle

SpecGeocode == InitGeocode /\ [][GeoNext]_vars

InitRateLimit == RlInit /\ ChIdle /\ AlIdle /\ OsIdle /\ OcIdle /\ GeoIdle /\ PoiIdle /\ BdIdle /\ CtIdle /\ EpIdle /\ RqIdle /\ CcIdle

SpecRateLimit == InitRateLimit /\ [][RlNext]_vars

InitPois == PoiInit /\ ChIdle /\ AlIdle /\ OsIdle /\ OcIdle /\ GeoIdle /\ RlIdle /\ BdIdle /\ CtIdle /\ EpIdle /\ RqIdle /\ CcIdle

SpecPois == InitPois /\ [][PoiNext]_vars

InitBoundary ==
    BdInit /\ ChIdle /\ AlIdle /\ OsIdle /\ OcIdle /\ GeoIdle /\ RlIdle /\ PoiIdle /\ CtIdle /\ EpIdle /\ RqIdle /\ CcIdle

SpecBoundary == InitBoundary /\ [][BdNext]_vars

InitContainment ==
    CtInit /\ ChIdle /\ AlIdle /\ OsIdle /\ OcIdle /\ GeoIdle /\ RlIdle /\ PoiIdle /\ BdIdle /\ EpIdle /\ RqIdle /\ CcIdle

SpecContainment == InitContainment /\ [][CtNext]_vars

InitElevation ==
    EpInit /\ ChIdle /\ AlIdle /\ OsIdle /\ OcIdle /\ GeoIdle /\ RlIdle /\ PoiIdle /\ BdIdle /\ CtIdle /\ RqIdle /\ CcIdle

SpecElevation == InitElevation /\ [][EpNext]_vars

InitRequest ==
    RqInit /\ ChIdle /\ AlIdle /\ OsIdle /\ OcIdle /\ GeoIdle /\ RlIdle /\ PoiIdle /\ BdIdle /\ CtIdle /\ EpIdle /\ CcIdle

SpecRequest == InitRequest /\ [][RqNext]_vars

InitRace ==
    CcInit /\ ChIdle /\ AlIdle /\ OsIdle /\ OcIdle /\ GeoIdle /\ RlIdle /\ PoiIdle /\ BdIdle /\ CtIdle /\ EpIdle /\ RqIdle

SpecRace == InitRace /\ [][CcNext]_vars

====
